---------------------------- MODULE Spec2Model ----------------------------
(***************************************************************************)
(* A model of the face pipeline of the VABiKo demo:                        *)
(*   - FaceDetectionSystem (face_detection.py): detect_faces,              *)
(*     get_face_encodings, compare_faces, get_face_encodings_from_url,     *)
(*     analyze_person_face_similarity, get_faces_with_boxes;               *)
(*   - FaceDatabase / FaceProcessor (process_all_faces.py): store_face,    *)
(*     store_image_names, process_image_file, main, get_all_faces,         *)
(*     find_similar_faces;                                                 *)
(*   - WikidataImageCache (wikidata_cache.py): fetch_wikidata_image,       *)
(*     get_cached_image_path, and the clear script                         *)
(*     (clear_wikidata_cache.py);                                          *)
(*   - the endpoints get_similar_faces and get_person_face_data (app.py).  *)
(* The third-party capability face_recognition is the environment: for an  *)
(* image file and a rotation it either raises or returns a list of face    *)
(* locations (top, right, bottom, left), deterministically.                *)
(***************************************************************************)
EXTENDS Integers, Sequences, FiniteSets, TLC

VARIABLES
    image,        \* the image file detect_faces / get_face_encodings are called on
    dfOut,        \* what detect_faces did on `image`
    encOut,       \* what get_face_encodings did on `image`
    cmpIn,        \* arguments of compare_faces
    cmpOut,       \* what compare_faces did on cmpIn
    cmpAgain,     \* what a second compare_faces did on related arguments
    faces,        \* committed rows of table faces
    faceSeq,      \* sqlite_sequence of table faces (AUTOINCREMENT)
    image_names,  \* committed rows of table image_names
    nameSeq,      \* sqlite_sequence of table image_names
    txn,          \* the store_image_names call in flight (its connection)
    lastCall,     \* the last completed call on the store and what it returned
    wikidata_face_cache,  \* FaceDetectionSystem.wikidata_face_cache, in memory
    wikidata_cache_file,  \* the contents of wikidata_face_cache.json
    fetched,      \* for each URL, how often it has been downloaded and detected
    urlOut,       \* what the last get_face_encodings_from_url did
    report,       \* what the last analyze_person_face_similarity did
    batch,        \* the batch run of main: its list, position and counters
    query,        \* the last query on the store and what it returned
    metadata,       \* WikidataImageCache.metadata, in memory
    metadata_file,  \* the file wikidata_cache/metadata.json
    cache_dir,      \* whether the directory wikidata_cache exists
    cache_files,    \* the image files in wikidata_cache
    caller,         \* for each caller of fetch_wikidata_image, where its call is
    wikidata_log,   \* for each entity, the requests made and the record first cached
    pathOut,        \* what the last get_cached_image_path returned
    face_cache,     \* FaceDetectionSystem.face_cache, in memory
    disk,           \* the image file at each path get_faces_with_boxes is called on
    boxOut,         \* what the last get_faces_with_boxes did
    personOut       \* what the last get_person_face_data answered

vars == <<image, dfOut, encOut, cmpIn, cmpOut, cmpAgain, faces, faceSeq,
          image_names, nameSeq, txn, lastCall,
          wikidata_face_cache, wikidata_cache_file, fetched, urlOut, report, batch,
          query, metadata, metadata_file, cache_dir, cache_files, caller, wikidata_log,
          pathOut, face_cache, disk, boxOut, personOut>>

detVars   == <<image, dfOut, encOut>>
cmpVars   == <<cmpIn, cmpOut, cmpAgain>>
storeVars == <<faces, faceSeq, image_names, nameSeq, txn, lastCall>>
matchVars == <<wikidata_face_cache, wikidata_cache_file, fetched, urlOut, report>>
batchVars == <<batch>>
imgVars   == <<metadata, metadata_file, cache_dir, cache_files, caller, wikidata_log,
               pathOut>>
boxVars   == <<face_cache, disk, boxOut>>
extVars   == <<query, imgVars, boxVars, personOut>>

----------------------------------------------------------------------------
(* Bounds *)

\* most faces the capability reports for one orientation of one image
MaxFaces == 2

----------------------------------------------------------------------------
(* The environment: image files and the detection capability *)

\* face locations as face_recognition returns them: <<top, right, bottom, left>>
FaceLocations == { <<1, 5, 4, 2>>, <<2, 9, 7, 3>>, <<6, 8, 9, 4>> }

\* sequences without repetition, of length at most n, over S
RECURSIVE DistinctSeqs(_, _)
DistinctSeqs(S, n) ==
    IF n = 0 THEN { <<>> }
    ELSE LET shorter == DistinctSeqs(S, n - 1)
             longest == { t \in shorter : Len(t) = n - 1 }
         IN  shorter \cup UNION { { Append(t, x) : x \in S \ { t[i] : i \in 1..Len(t) } } :
                                  t \in longest }

orientations_to_try == <<0, 90, -90>>

Rotations == { orientations_to_try[i] : i \in 1..Len(orientations_to_try) }

\* what face_recognition.face_locations does on one rotated image
DetectionOutcomes ==
    { [raises |-> TRUE, locations |-> <<>>] }
    \cup { [raises |-> FALSE, locations |-> s] : s \in DistinctSeqs(FaceLocations, MaxFaces) }

\* an image file: absent, not an image (open raises), or readable
ImageFiles ==
    { [status |-> st, det |-> [r \in Rotations |-> [raises |-> FALSE, locations |-> <<>>]],
       crop_ok |-> TRUE] : st \in {"missing", "corrupt"} }
    \cup { [status |-> "ok", det |-> d, crop_ok |-> TRUE] : d \in [Rotations -> DetectionOutcomes] }

\* Descriptors are points of the plane in units of 0.1, chosen so that every
\* distance between two of them is a whole number of units.
DescriptorPoints ==
    << <<0, 0>>,  <<5, 0>>,  <<9, 0>>,
       <<0, 12>>, <<-5, 0>>, <<-9, 0>>,
       <<0, -12>>, <<16, 0>>, <<-16, 0>> >>

\* face_recognition.face_encodings: the descriptor of one location of the
\* rotated image, a deterministic function of the pixels under it
Descriptor(rotation, location) ==
    LET k == CHOOSE n \in 1..Len(orientations_to_try) : orientations_to_try[n] = rotation
        top == location[1]
    IN  DescriptorPoints[(k - 1) * 3 + (IF top = 1 THEN 1 ELSE IF top = 2 THEN 2 ELSE 3)]

face_encodings(rotation, locations) ==
    [i \in 1..Len(locations) |-> Descriptor(rotation, locations[i])]

----------------------------------------------------------------------------
(* FaceDetectionSystem.detect_faces *)

\* the dict detect_faces builds for the i-th (0-based) location
FaceDict(i, loc) ==
    [id |-> i, top |-> loc[1], right |-> loc[2], bottom |-> loc[3], left |-> loc[4],
     width |-> loc[2] - loc[4], height |-> loc[3] - loc[1]]

FaceDicts(locations) ==
    [i \in 1..Len(locations) |-> FaceDict(i - 1, locations[i])]

\* a variant of df_improves: a tie replaces the retained result
df_improves_on_tie(face_count, best_count) == face_count >= best_count

\* `if face_count > best_count`
df_improves(face_count, best_count) == face_count > best_count

\* the loop over orientations_to_try from position k on; best is
\* (best_count, best_orientation, best_faces); exc when face_locations raised
RECURSIVE df_loop(_, _, _)
df_loop(im, k, best) ==
    IF k > Len(orientations_to_try) THEN [exc |-> FALSE, best |-> best]
    ELSE LET rotation == orientations_to_try[k]
             outcome  == im.det[rotation]
             face_count == Len(outcome.locations)
         IN  IF outcome.raises THEN [exc |-> TRUE, best |-> best]
             ELSE IF df_improves(face_count, best.count)
                  THEN df_loop(im, k + 1, [count |-> face_count, orientation |-> rotation,
                                            faces |-> FaceDicts(outcome.locations)])
                  ELSE df_loop(im, k + 1, best)

\* the body of the try block: exc when an exception leaves it
df_try(im) ==
    LET none == [count |-> 0, orientation |-> 0, faces |-> <<>>]
    IN  IF im.status = "missing" THEN [exc |-> FALSE, best |-> none]
        ELSE IF im.status = "corrupt" THEN [exc |-> TRUE, best |-> none]
        ELSE df_loop(im, 1, none)

\* a variant of detect_faces: no except clause, the exception reaches the caller
detect_faces_uncaught(im) ==
    LET r == df_try(im)
    IN  IF r.exc THEN [state |-> "raised", value |-> <<>>, best_orientation |-> 0]
        ELSE [state |-> "returned", value |-> r.best.faces,
              best_orientation |-> r.best.orientation]

\* detect_faces: `except Exception: return []`
detect_faces(im) ==
    LET r == df_try(im)
    IN  IF r.exc THEN [state |-> "returned", value |-> <<>>, best_orientation |-> 0]
        ELSE [state |-> "returned", value |-> r.best.faces,
              best_orientation |-> r.best.orientation]

----------------------------------------------------------------------------
(* FaceDetectionSystem.get_face_encodings *)

\* a variant of ge_improves: a tie replaces the retained encodings
ge_improves_on_tie(count, best_count) == count >= best_count

\* `if len(face_encodings) > best_count`
ge_improves(count, best_count) == count > best_count

RECURSIVE ge_loop(_, _, _)
ge_loop(im, k, best) ==
    IF k > Len(orientations_to_try) THEN [exc |-> FALSE, best |-> best]
    ELSE LET rotation == orientations_to_try[k]
             outcome  == im.det[rotation]
             encodings == face_encodings(rotation, outcome.locations)
         IN  IF outcome.raises THEN [exc |-> TRUE, best |-> best]
             ELSE IF ge_improves(Len(encodings), best.count)
                  THEN ge_loop(im, k + 1, [count |-> Len(encodings), encodings |-> encodings])
                  ELSE ge_loop(im, k + 1, best)

ge_try(im) ==
    LET none == [count |-> 0, encodings |-> <<>>]
    IN  IF im.status = "missing" THEN [exc |-> FALSE, best |-> none]
        ELSE IF im.status = "corrupt" THEN [exc |-> TRUE, best |-> none]
        ELSE ge_loop(im, 1, none)

\* get_face_encodings: `except Exception: return []`
get_face_encodings(im) ==
    LET r == ge_try(im)
    IN  IF r.exc THEN [state |-> "returned", value |-> <<>>]
        ELSE [state |-> "returned", value |-> r.best.encodings]

----------------------------------------------------------------------------
(* Actions of the detector *)

NotCalledDf  == [state |-> "idle", value |-> <<>>, best_orientation |-> 0]
NotCalledEnc == [state |-> "idle", value |-> <<>>]

DetectFaces ==
    /\ dfOut.state = "idle"
    /\ dfOut' = detect_faces(image)
    /\ UNCHANGED <<image, encOut>>
    /\ UNCHANGED cmpVars /\ UNCHANGED storeVars
    /\ UNCHANGED matchVars /\ UNCHANGED batchVars
    /\ UNCHANGED extVars

GetFaceEncodings ==
    /\ encOut.state = "idle"
    /\ encOut' = get_face_encodings(image)
    /\ UNCHANGED <<image, dfOut>>
    /\ UNCHANGED cmpVars /\ UNCHANGED storeVars
    /\ UNCHANGED matchVars /\ UNCHANGED batchVars
    /\ UNCHANGED extVars

----------------------------------------------------------------------------
(* FaceDetectionSystem.compare_faces *)

\* longest encoding list handed to compare_faces
MaxEnc == 2

\* the encodings compare_faces is tried on: pairwise distances 4, 5, 9, 12, 13, 15
CmpEncodings == { DescriptorPoints[i] : i \in 1..4 }

\* thresholds in units of 0.1; 6 is the default `threshold=0.6`
DefaultThreshold == 6
Thresholds == { DefaultThreshold, 5, 9, -2 }

RECURSIVE SeqsUpTo(_, _)
SeqsUpTo(S, n) ==
    IF n = 0 THEN { <<>> }
    ELSE LET shorter == SeqsUpTo(S, n - 1)
         IN  shorter \cup { Append(t, x) : t \in { u \in shorter : Len(u) = n - 1 }, x \in S }

\* the whole root of n, for the n that are squares
Root(n) == CHOOSE r \in 0..n : r * r = n

\* face_recognition.face_distance([b], a)[0]: the Euclidean norm of b - a
face_distance(b, a) ==
    Root((b[1] - a[1]) * (b[1] - a[1]) + (b[2] - a[2]) * (b[2] - a[2]))

\* similarity = 1.0 - distance, in units of 0.1
Similarity(distance) == 10 - distance

\* a variant of above_threshold: a pair exactly at the threshold is dropped
above_threshold_strict(similarity, threshold) == similarity > threshold

\* a variant of above_threshold: the comparison is turned around
below_threshold(similarity, threshold) == similarity <= threshold

\* `if similarity >= threshold`
above_threshold(similarity, threshold) == similarity >= threshold

\* the dict appended for the pair (i, j), both 0-based
MatchDict(i, j, distance, threshold) ==
    [archive_face_index |-> i, wikidata_face_index |-> j,
     similarity |-> Similarity(distance), distance |-> distance,
     is_match |-> (Similarity(distance) >= threshold)]

\* a variant of cf_pairs: the inner loop ends at the first match of an
\* archive face
RECURSIVE cf_pairs_first_match(_, _, _, _)
cf_pairs_first_match(A, B, threshold, n) ==
    IF n >= Len(A) * Len(B) THEN <<>>
    ELSE LET i == n \div Len(B)
             j == n % Len(B)
             distance == face_distance(B[j + 1], A[i + 1])
         IN  IF Similarity(distance) >= threshold
             THEN <<MatchDict(i, j, distance, threshold)>>
                     \o cf_pairs_first_match(A, B, threshold, (i + 1) * Len(B))
             ELSE cf_pairs_first_match(A, B, threshold, n + 1)

\* the nested loops, flattened: pair number n (from 0) is (n \div |B|, n % |B|)
RECURSIVE cf_pairs(_, _, _, _)
cf_pairs(A, B, threshold, n) ==
    IF n >= Len(A) * Len(B) THEN <<>>
    ELSE LET i == n \div Len(B)
             j == n % Len(B)
             distance == face_distance(B[j + 1], A[i + 1])
             tail == cf_pairs(A, B, threshold, n + 1)
         IN  IF above_threshold(Similarity(distance), threshold)
             THEN <<MatchDict(i, j, distance, threshold)>> \o tail
             ELSE tail

\* a variant of sort_by_similarity: equal keys come out in reverse order
RECURSIVE sort_ties_reversed(_)
sort_ties_reversed(s) ==
    IF s = <<>> THEN <<>>
    ELSE LET last   == s[Len(s)]
             sorted == sort_ties_reversed(SubSeq(s, 1, Len(s) - 1))
             keep   == Cardinality({ k \in 1..Len(sorted) :
                                       sorted[k].similarity > last.similarity })
         IN  SubSeq(sorted, 1, keep) \o <<last>> \o SubSeq(sorted, keep + 1, Len(sorted))

\* list.sort(key=similarity, reverse=True): stable, equal keys keep their order
RECURSIVE sort_by_similarity(_)
sort_by_similarity(s) ==
    IF s = <<>> THEN <<>>
    ELSE LET last   == s[Len(s)]
             sorted == sort_by_similarity(SubSeq(s, 1, Len(s) - 1))
             \* last goes behind every element whose similarity is not smaller
             keep   == Cardinality({ k \in 1..Len(sorted) :
                                       sorted[k].similarity >= last.similarity })
         IN  SubSeq(sorted, 1, keep) \o <<last>> \o SubSeq(sorted, keep + 1, Len(sorted))

compare_faces(A, B, threshold) ==
    IF A = <<>> \/ B = <<>> THEN [state |-> "returned", value |-> <<>>]
    ELSE [state |-> "returned", value |-> sort_by_similarity(cf_pairs(A, B, threshold, 0))]

NotCalledCmp == [state |-> "idle", value |-> <<>>]

CompareFaces ==
    /\ cmpOut.state = "idle"
    /\ cmpOut' = compare_faces(cmpIn.archive_encodings, cmpIn.wikidata_encodings,
                               cmpIn.threshold)
    /\ UNCHANGED <<cmpIn, cmpAgain>>
    /\ UNCHANGED detVars /\ UNCHANGED storeVars
    /\ UNCHANGED matchVars /\ UNCHANGED batchVars
    /\ UNCHANGED extVars

NotCalledAgain == [kind |-> "none", threshold |-> DefaultThreshold, value |-> <<>>]

\* compare_faces once more on the same two lists, with another threshold
CompareFacesAtThreshold(threshold) ==
    /\ cmpOut.state = "returned"
    /\ cmpAgain.kind = "none"
    /\ cmpAgain' = [kind |-> "threshold", threshold |-> threshold,
                    value |-> compare_faces(cmpIn.archive_encodings,
                                            cmpIn.wikidata_encodings, threshold).value]
    /\ UNCHANGED <<cmpIn, cmpOut>>
    /\ UNCHANGED detVars /\ UNCHANGED storeVars
    /\ UNCHANGED matchVars /\ UNCHANGED batchVars
    /\ UNCHANGED extVars

\* compare_faces once more with the two lists exchanged, same threshold
CompareFacesSwapped ==
    /\ cmpOut.state = "returned"
    /\ cmpAgain.kind = "none"
    /\ cmpAgain' = [kind |-> "swapped", threshold |-> cmpIn.threshold,
                    value |-> compare_faces(cmpIn.wikidata_encodings,
                                            cmpIn.archive_encodings, cmpIn.threshold).value]
    /\ UNCHANGED <<cmpIn, cmpOut>>
    /\ UNCHANGED detVars /\ UNCHANGED storeVars
    /\ UNCHANGED matchVars /\ UNCHANGED batchVars
    /\ UNCHANGED extVars

----------------------------------------------------------------------------
(* The archive and its metadata (the environment of the ingestion) *)

\* ARCHIVE_BASE/urn*/image.jpg: one image file for each URN
Quiet == [raises |-> FALSE, locations |-> <<>>]
Found(locations) == [raises |-> FALSE, locations |-> locations]

ArchiveUrns == { "urn:1", "urn:2", "urn:3", "urn:4", "urn:5", "urn:6", "urn:7" }

Archive(urn) ==
    CASE urn = "urn:1" ->   \* two faces upright
           [status |-> "ok", crop_ok |-> TRUE,
            det |-> [r \in Rotations |-> IF r = 0 THEN Found(<< <<1, 5, 4, 2>>, <<2, 9, 7, 3>> >>)
                                          ELSE Quiet]]
      [] urn = "urn:2" ->   \* one face upright, two when turned by 90
           [status |-> "ok", crop_ok |-> TRUE,
            det |-> [r \in Rotations |-> IF r = 0 THEN Found(<< <<2, 9, 7, 3>> >>)
                                          ELSE IF r = 90 THEN Found(<< <<1, 5, 4, 2>>, <<6, 8, 9, 4>> >>)
                                          ELSE Quiet]]
      [] urn = "urn:3" ->   \* not an image
           [status |-> "corrupt", crop_ok |-> TRUE, det |-> [r \in Rotations |-> Quiet]]
      [] urn = "urn:4" ->   \* one face whose crop cannot be saved
           [status |-> "ok", crop_ok |-> FALSE,
            det |-> [r \in Rotations |-> IF r = 0 THEN Found(<< <<6, 8, 9, 4>> >>) ELSE Quiet]]
      [] urn = "urn:5" ->   \* the file is gone
           [status |-> "missing", crop_ok |-> TRUE, det |-> [r \in Rotations |-> Quiet]]
      [] urn = "urn:6" ->   \* no face upright, one when turned by -90
           [status |-> "ok", crop_ok |-> TRUE,
            det |-> [r \in Rotations |-> IF r = -90 THEN Found(<< <<1, 5, 4, 2>> >>) ELSE Quiet]]
      [] OTHER ->           \* the capability raises on it
           [status |-> "ok", crop_ok |-> TRUE,
            det |-> [r \in Rotations |-> [raises |-> TRUE, locations |-> <<>>]]]

\* entities_data: entity.get('depicted_person', []) of the entity with this urn
depicted_person(urn) ==
    CASE urn = "urn:1" -> << "A Smith", "Smith A", "B Jones" >>
      [] urn = "urn:2" -> << "", "B Jones" >>
      [] urn = "urn:4" -> << "A Smith" >>
      [] OTHER         -> << >>

\* self.existing_to_unified.get(name, name)
existing_to_unified(name) ==
    IF name \in { "A Smith", "Smith A" } THEN "Smith" ELSE name

\* FaceProcessor.get_names_for_image
get_names_for_image(urn) ==
    LET persons == depicted_person(urn)
        kept    == SelectSeq(persons, LAMBDA person_name : person_name # "")
    IN  [i \in 1..Len(kept) |->
            [unified_name |-> existing_to_unified(kept[i]), display_name |-> kept[i],
             complete |-> TRUE]]

----------------------------------------------------------------------------
(* FaceDatabase: the tables faces and image_names of faces.db *)

\* the ids the model lets AUTOINCREMENT reach
MaxId == 4
\* longest list of associations handed to store_image_names directly
MaxNames == 2

\* Python's None in the column face_image_path
None == << >>

\* a variant of generate_face_hash: the digest of the region alone
generate_face_hash_of_region(image_urn, face_index, face_location) ==
    << "", 0, face_location[1], face_location[2], face_location[3], face_location[4] >>

\* FaceProcessor.generate_face_hash: the MD5 of "urn_index_top_right_bottom_left".
\* The text determines the six fields (the last five are numbers), so the
\* digest is modelled by the fields.
generate_face_hash(image_urn, face_index, face_location) ==
    << image_urn, face_index, face_location[1], face_location[2],
       face_location[3], face_location[4] >>

FaceData(face_hash, image_urn, face_index, loc, face_encoding, face_image_path) ==
    [face_hash |-> face_hash, image_urn |-> image_urn, face_index |-> face_index,
     face_left |-> loc[4], face_top |-> loc[1], face_right |-> loc[2],
     face_bottom |-> loc[3], face_encoding |-> face_encoding,
     face_image_path |-> face_image_path]

\* a row of table faces: the columns of face_data and the id
FaceRow(id, fd) ==
    [id |-> id, face_hash |-> fd.face_hash, image_urn |-> fd.image_urn,
     face_index |-> fd.face_index, face_left |-> fd.face_left, face_top |-> fd.face_top,
     face_right |-> fd.face_right, face_bottom |-> fd.face_bottom,
     face_encoding |-> fd.face_encoding, face_image_path |-> fd.face_image_path]

\* the face_data of a row
RowData(row) ==
    [face_hash |-> row.face_hash, image_urn |-> row.image_urn,
     face_index |-> row.face_index, face_left |-> row.face_left, face_top |-> row.face_top,
     face_right |-> row.face_right, face_bottom |-> row.face_bottom,
     face_encoding |-> row.face_encoding, face_image_path |-> row.face_image_path]

\* a variant of store_face: face_hash is not UNIQUE, every call adds a row
store_face_append(rows, seq, fd) ==
    IF fd.face_image_path = None
    THEN [rows |-> rows, seq |-> seq, ret |-> 0]
    ELSE [rows |-> rows \cup { FaceRow(seq + 1, fd) }, seq |-> seq + 1, ret |-> seq + 1]

\* FaceDatabase.store_face on the committed (rows, sqlite_sequence): INSERT OR
\* REPLACE deletes the row with this face_hash and inserts a new row under the
\* next AUTOINCREMENT id; a NULL in a NOT NULL column aborts the statement and
\* the call returns None (ret 0) with nothing committed.
store_face(rows, seq, fd) ==
    IF fd.face_image_path = None
    THEN [rows |-> rows, seq |-> seq, ret |-> 0]
    ELSE [rows |-> { r \in rows : r.face_hash # fd.face_hash } \cup { FaceRow(seq + 1, fd) },
          seq  |-> seq + 1,
          ret  |-> seq + 1]

NameRow(id, image_urn, name_data) ==
    [id |-> id, image_urn |-> image_urn, unified_name |-> name_data.unified_name,
     display_name |-> name_data.display_name]

\* a variant of insert_or_ignore: INSERT OR REPLACE
insert_or_replace(pending, image_urn, name_data) ==
    IF ~name_data.complete
    THEN [exc |-> TRUE, rows |-> pending.rows, seq |-> pending.seq]
    ELSE [exc  |-> FALSE,
          rows |-> { r \in pending.rows : ~(r.image_urn = image_urn
                                            /\ r.unified_name = name_data.unified_name) }
                   \cup { NameRow(pending.seq + 1, image_urn, name_data) },
          seq  |-> pending.seq + 1]

\* one pass of the loop of store_image_names on the connection's view of the
\* table: name_data['display_name'] raises KeyError on a dict without the key;
\* INSERT OR IGNORE skips a row whose (image_urn, unified_name) is there
insert_or_ignore(pending, image_urn, name_data) ==
    IF ~name_data.complete
    THEN [exc |-> TRUE, rows |-> pending.rows, seq |-> pending.seq]
    ELSE IF \E r \in pending.rows : r.image_urn = image_urn
                                    /\ r.unified_name = name_data.unified_name
    THEN [exc |-> FALSE, rows |-> pending.rows, seq |-> pending.seq]
    ELSE [exc  |-> FALSE,
          rows |-> pending.rows \cup { NameRow(pending.seq + 1, image_urn, name_data) },
          seq  |-> pending.seq + 1]

\* a variant of sin_on_exception: the finally clause commits before closing
sin_on_exception_commits(committed, pending) == pending

\* `except: log` then `finally: conn.close()`: closing the connection drops
\* what it has not committed
sin_on_exception(committed, pending) == committed

\* conn.commit()
sin_commit(committed, pending) == pending

\* the loop of store_image_names from position i on
RECURSIVE sin_loop(_, _, _, _)
sin_loop(pending, image_urn, names, i) ==
    IF i > Len(names) THEN [exc |-> FALSE, rows |-> pending.rows, seq |-> pending.seq]
    ELSE LET r == insert_or_ignore(pending, image_urn, names[i])
         IN  IF r.exc THEN r
             ELSE sin_loop([rows |-> r.rows, seq |-> r.seq], image_urn, names, i + 1)

\* FaceDatabase.store_image_names as one call on the committed table
store_image_names(committed, image_urn, names) ==
    LET r == sin_loop(committed, image_urn, names, 1)
        pending == [rows |-> r.rows, seq |-> r.seq]
    IN  IF r.exc THEN sin_on_exception(committed, pending)
        ELSE sin_commit(committed, pending)

\* FaceDatabase.get_image_names
get_image_names(rows, image_urn) ==
    { [unified_name |-> r.unified_name, display_name |-> r.display_name] :
          r \in { q \in rows : q.image_urn = image_urn } }

----------------------------------------------------------------------------
(* FaceProcessor.process_image_file *)

\* FaceProcessor.extract_face_image: the path of the saved crop, or None when
\* cropping or saving raised
extract_face_image(im, face_hash) ==
    IF im.crop_ok THEN << "extracted_faces", face_hash >> ELSE None

\* the loop over zip(face_locations, face_encodings) from position k on (1-based
\* here, face_index = k - 1), on the committed faces table ft
RECURSIVE pif_loop(_, _, _, _, _, _)
pif_loop(ft, image_urn, im, face_locations, encodings, k) ==
    IF k > Len(face_locations) THEN ft
    ELSE LET face_hash == generate_face_hash(image_urn, k - 1, face_locations[k])
             face_image_path == extract_face_image(im, face_hash)
             face_data == FaceData(face_hash, image_urn, k - 1, face_locations[k],
                                   encodings[k], face_image_path)
             stored == store_face(ft.rows, ft.seq, face_data)
         IN  IF face_image_path = None
             THEN pif_loop(ft, image_urn, im, face_locations, encodings, k + 1)
             ELSE pif_loop([rows |-> stored.rows, seq |-> stored.seq],
                           image_urn, im, face_locations, encodings, k + 1)

\* the faces the call detects: face_recognition.load_image_file and
\* face_locations on the image as it is (rotation 0)
pif_locations(im) == im.det[0].locations

\* process_image_file on the committed tables ft (faces) and nt (image_names):
\* the tables after the call, what it returned (1 True, 0 False) and the
\* hashes it generated
process_image_file(ft, nt, im, image_urn) ==
    LET unchanged == [ft |-> ft, nt |-> nt, hashes |-> {}]
        face_locations == pif_locations(im)
        encodings == face_encodings(0, face_locations)
        names == get_names_for_image(image_urn)
    IN  IF im.status = "missing" THEN [ret |-> 0] @@ unchanged
        ELSE IF im.status = "corrupt" \/ im.det[0].raises THEN [ret |-> 0] @@ unchanged
        ELSE IF face_locations = << >> THEN [ret |-> 1] @@ unchanged
        ELSE [ret |-> 1,
              nt  |-> IF names # << >>
                      THEN store_image_names(nt, image_urn, names)
                      ELSE nt,
              ft  |-> pif_loop(ft, image_urn, im, face_locations, encodings, 1),
              hashes |-> { generate_face_hash(image_urn, k - 1, face_locations[k]) :
                              k \in 1..Len(face_locations) }]

----------------------------------------------------------------------------
(* Actions of the store *)

NoCall == [op |-> "none", urn |-> "", ret |-> 0, hashes |-> {}, run |-> 0]

\* the record of a completed call: what it returned, for process_image_file the
\* image and the hashes it generated, and run = 2 when the call before it was
\* process_image_file on the same image
Call(op, urn, ret, hashes) ==
    [op |-> op, urn |-> urn, ret |-> ret, hashes |-> hashes,
     run |-> IF op = "process_image_file" /\ lastCall.op = op /\ lastCall.urn = urn
             THEN 2 ELSE 1]

Idle == [open |-> FALSE, urn |-> "", names |-> << >>, i |-> 0, rows |-> {}, seq |-> 0]

\* the face_data store_face is called with directly: the first face of urn:1
\* as ingestion computes it, with another encoding, and with None for its crop
FaceDataInputs ==
    LET loc == <<1, 5, 4, 2>>
        face_hash == generate_face_hash("urn:1", 0, loc)
    IN  { FaceData(face_hash, "urn:1", 0, loc, Descriptor(0, loc), << "extracted_faces", face_hash >>),
          FaceData(face_hash, "urn:1", 0, loc, Descriptor(90, loc), << "extracted_faces", face_hash >>),
          FaceData(face_hash, "urn:1", 0, loc, Descriptor(0, loc), None) }

\* the associations store_image_names is called with directly; a dict without
\* the key display_name is not complete
NameDataInputs ==
    { [unified_name |-> "Smith", display_name |-> "A Smith", complete |-> TRUE],
      [unified_name |-> "Smith", display_name |-> "Smith A", complete |-> TRUE],
      [unified_name |-> "Jones", display_name |-> "B Jones", complete |-> TRUE],
      [unified_name |-> "Jones", display_name |-> "", complete |-> FALSE] }

NameUrnInputs == { "urn:1" }

StoreFace(fd) ==
    /\ ~txn.open
    /\ faceSeq < MaxId
    /\ LET r == store_face(faces, faceSeq, fd)
       IN  /\ faces' = r.rows
           /\ faceSeq' = r.seq
           /\ lastCall' = Call("store_face", "", r.ret, {})
    /\ UNCHANGED <<image_names, nameSeq, txn>>
    /\ UNCHANGED detVars /\ UNCHANGED cmpVars
    /\ UNCHANGED matchVars /\ UNCHANGED batchVars
    /\ UNCHANGED extVars

\* store_image_names: connect, and the first statement opens the transaction
StoreImageNamesBegin(image_urn, names) ==
    /\ ~txn.open
    /\ nameSeq + Len(names) <= MaxId
    /\ txn' = [open |-> TRUE, urn |-> image_urn, names |-> names, i |-> 1,
               rows |-> image_names, seq |-> nameSeq]
    /\ UNCHANGED <<faces, faceSeq, image_names, nameSeq, lastCall>>
    /\ UNCHANGED detVars /\ UNCHANGED cmpVars
    /\ UNCHANGED matchVars /\ UNCHANGED batchVars
    /\ UNCHANGED extVars

\* one pass of the loop; an exception ends the call through except and finally
StoreImageNamesExecute ==
    /\ txn.open
    /\ txn.i <= Len(txn.names)
    /\ LET committed == [rows |-> image_names, seq |-> nameSeq]
           pending   == [rows |-> txn.rows, seq |-> txn.seq]
           r == insert_or_ignore(pending, txn.urn, txn.names[txn.i])
       IN  IF r.exc
           THEN LET after == sin_on_exception(committed, [rows |-> r.rows, seq |-> r.seq])
                IN  /\ image_names' = after.rows
                    /\ nameSeq' = after.seq
                    /\ txn' = Idle
                    /\ lastCall' = Call("store_image_names", "", 0, {})
           ELSE /\ txn' = [txn EXCEPT !.rows = r.rows, !.seq = r.seq, !.i = txn.i + 1]
                /\ UNCHANGED <<image_names, nameSeq, lastCall>>
    /\ UNCHANGED <<faces, faceSeq>>
    /\ UNCHANGED detVars /\ UNCHANGED cmpVars
    /\ UNCHANGED matchVars /\ UNCHANGED batchVars
    /\ UNCHANGED extVars

\* conn.commit() after the loop, then close
StoreImageNamesCommit ==
    /\ txn.open
    /\ txn.i > Len(txn.names)
    /\ LET after == sin_commit([rows |-> image_names, seq |-> nameSeq],
                               [rows |-> txn.rows, seq |-> txn.seq])
       IN  /\ image_names' = after.rows
           /\ nameSeq' = after.seq
    /\ txn' = Idle
    /\ lastCall' = Call("store_image_names", "", 1, {})
    /\ UNCHANGED <<faces, faceSeq>>
    /\ UNCHANGED detVars /\ UNCHANGED cmpVars
    /\ UNCHANGED matchVars /\ UNCHANGED batchVars
    /\ UNCHANGED extVars

ProcessImageFile(image_urn) ==
    /\ ~txn.open
    /\ LET r == process_image_file([rows |-> faces, seq |-> faceSeq],
                                   [rows |-> image_names, seq |-> nameSeq],
                                   Archive(image_urn), image_urn)
       IN  /\ r.ft.seq <= MaxId /\ r.nt.seq <= MaxId
           /\ faces' = r.ft.rows
           /\ faceSeq' = r.ft.seq
           /\ image_names' = r.nt.rows
           /\ nameSeq' = r.nt.seq
           /\ lastCall' = Call("process_image_file", image_urn, r.ret, r.hashes)
    /\ UNCHANGED txn
    /\ UNCHANGED detVars /\ UNCHANGED cmpVars
    /\ UNCHANGED matchVars /\ UNCHANGED batchVars
    /\ UNCHANGED extVars

----------------------------------------------------------------------------
(* The reference images and the cache of their encodings *)

\* the URLs get_face_encodings_from_url is called with
ReferenceUrls == { "url:1", "url:2", "url:3" }

\* the image file a successful download of the URL writes to the temp path
WebImage(url) ==
    CASE url = "url:1" ->   \* two faces upright
           [status |-> "ok", crop_ok |-> TRUE,
            det |-> [r \in Rotations |-> IF r = 0 THEN Found(<< <<1, 5, 4, 2>>, <<6, 8, 9, 4>> >>)
                                          ELSE Quiet]]
      [] url = "url:2" ->   \* one face upright
           [status |-> "ok", crop_ok |-> TRUE,
            det |-> [r \in Rotations |-> IF r = 0 THEN Found(<< <<2, 9, 7, 3>> >>) ELSE Quiet]]
      [] OTHER ->           \* a portrait lying on its side: one face when turned by 90
           [status |-> "ok", crop_ok |-> TRUE,
            det |-> [r \in Rotations |-> IF r = 90 THEN Found(<< <<1, 5, 4, 2>> >>) ELSE Quiet]]

\* most downloads of one URL the model follows
MaxFetches == 2

\* encoding.tolist(): the Python list of the numbers of a numpy array
tolist(encoding) == [list |-> encoding]

\* np.array(encoding): the numpy array of the numbers of a list
np_array(cached) == cached.list

\* the cached branch: every cached entry is a list, written by tolist or read
\* by json.load, and is turned back into an array
from_cache(cached_encodings) ==
    [i \in 1..Len(cached_encodings) |-> np_array(cached_encodings[i])]

\* json.dump(self.wikidata_face_cache) to wikidata_face_cache.json
save_wikidata_cache(cache) == cache

\* json.load of wikidata_face_cache.json; no file, no entries
load_wikidata_cache(file) == file

EmptyCache == [u \in {} |-> << >>]

\* self.wikidata_face_cache[image_url] = entry
cache_put(cache, image_url, entry) ==
    [u \in DOMAIN cache \cup { image_url } |-> IF u = image_url THEN entry ELSE cache[u]]

\* the encodings of the downloaded image are cached as lists and returned
gfeu_downloaded(cache, image_url, encodings) ==
    [cache |-> cache_put(cache, image_url,
                         [i \in 1..Len(encodings) |-> tolist(encodings[i])]),
     value |-> encodings, fetch |-> TRUE]

\* a variant of gfeu_failed: the empty result is returned and not cached
gfeu_failed_not_cached(cache, image_url) ==
    [cache |-> cache, value |-> << >>, fetch |-> TRUE]

\* `except Exception`: the empty result is cached and returned
gfeu_failed(cache, image_url) ==
    [cache |-> cache_put(cache, image_url, << >>), value |-> << >>, fetch |-> TRUE]

\* a variant of get_face_encodings_from_url: the cache is not consulted
get_face_encodings_from_url_uncached(cache, image_url, response_ok) ==
    IF ~response_ok
    THEN gfeu_failed(cache, image_url)
    ELSE gfeu_downloaded(cache, image_url, get_face_encodings(WebImage(image_url)).value)

\* get_face_encodings_from_url on the in-memory cache; response_ok is whether
\* requests.get and raise_for_status go through. The result: the cache after
\* the call (saved to disk whenever it changed), the list returned, and
\* whether the URL was downloaded.
get_face_encodings_from_url(cache, image_url, response_ok) ==
    IF image_url \in DOMAIN cache
    THEN [cache |-> cache, value |-> from_cache(cache[image_url]), fetch |-> FALSE]
    ELSE IF ~response_ok
    THEN gfeu_failed(cache, image_url)
    ELSE gfeu_downloaded(cache, image_url, get_face_encodings(WebImage(image_url)).value)

----------------------------------------------------------------------------
(* FaceDetectionSystem.analyze_person_face_similarity *)

\* `best_match['similarity'] >= 0.8`, in units of 0.1
StrongMatch == 8

\* the loop over wikidata_image_urls from position i on; down holds the URLs
\* whose download fails during this call. The result: the cache after the
\* loop, the encodings got for each position, and the downloads made, in order
RECURSIVE apfs_wikidata_loop(_, _, _, _)
RECURSIVE apfs_wikidata_pass(_, _, _, _)

\* what one pass r and the passes after it, rest, give together
apfs_wikidata_join(image_url, r, rest) ==
    [cache |-> rest.cache,
     encodings |-> << r.value >> \o rest.encodings,
     fetches |-> (IF r.fetch THEN << [url |-> image_url, value |-> r.value] >>
                  ELSE << >>) \o rest.fetches]

\* the passes after pass i, which gave r
apfs_wikidata_pass(urls, down, i, r) ==
    apfs_wikidata_join(urls[i], r, apfs_wikidata_loop(r.cache, urls, down, i + 1))

apfs_wikidata_loop(cache, urls, down, i) ==
    IF i > Len(urls) THEN [cache |-> cache, encodings |-> << >>, fetches |-> << >>]
    ELSE apfs_wikidata_pass(urls, down, i,
                            get_face_encodings_from_url(cache, urls[i], urls[i] \notin down))

\* the keys of archive_encodings_data / wikidata_encodings_data in insertion
\* order: the positions (from 0) of the images that gave encodings
apfs_keys(encodings) ==
    SelectSeq([i \in 1..Len(encodings) |-> i - 1], LAMBDA k : encodings[k + 1] # << >>)

\* a variant of apfs_tag: the two image indices are exchanged
apfs_tag_exchanged(sim, arch_idx, wiki_idx) ==
    sim @@ [archive_image_index |-> wiki_idx, wikidata_image_index |-> arch_idx]

\* sim['archive_image_index'] = int(arch_idx); sim['wikidata_image_index'] = int(wiki_idx)
apfs_tag(sim, arch_idx, wiki_idx) ==
    sim @@ [archive_image_index |-> arch_idx, wikidata_image_index |-> wiki_idx]

\* the two loops over the keys, flattened: pair number n (from 0)
\* `for sim in similarities`: every match of the pair tagged
apfs_tag_all(similarities, arch_idx, wiki_idx) ==
    [k \in 1..Len(similarities) |-> apfs_tag(similarities[k], arch_idx, wiki_idx)]

RECURSIVE apfs_compare(_, _, _, _, _)
apfs_compare(arch, wiki, arch_keys, wiki_keys, n) ==
    IF n >= Len(arch_keys) * Len(wiki_keys) THEN << >>
    ELSE LET arch_idx == arch_keys[(n \div Len(wiki_keys)) + 1]
             wiki_idx == wiki_keys[(n % Len(wiki_keys)) + 1]
         IN  apfs_tag_all(compare_faces(arch[arch_idx + 1], wiki[wiki_idx + 1],
                                        DefaultThreshold).value, arch_idx, wiki_idx)
                \o apfs_compare(arch, wiki, arch_keys, wiki_keys, n + 1)

\* a variant of best_match: the last match of the list
best_match_last(all_similarities) == all_similarities[Len(all_similarities)]

\* max(all_similarities, key=similarity): the first of the greatest
best_match(all_similarities) ==
    LET k == CHOOSE k \in 1..Len(all_similarities) :
                 /\ \A m \in 1..Len(all_similarities) :
                       all_similarities[m].similarity <= all_similarities[k].similarity
                 /\ \A m \in 1..(k - 1) :
                       all_similarities[m].similarity < all_similarities[k].similarity
    IN  all_similarities[k]

RECURSIVE apfs_sum(_)
apfs_sum(all_similarities) ==
    IF all_similarities = << >> THEN 0
    ELSE all_similarities[1].similarity + apfs_sum(Tail(all_similarities))

RECURSIVE GCD(_, _)
GCD(a, b) == IF b = 0 THEN a ELSE GCD(b, a % b)

\* total / count as a number: the fraction in lowest terms, <<numerator, denominator>>
Quotient(total, count) ==
    LET g == GCD(IF total < 0 THEN -total ELSE total, count)
    IN  << total \div g, count \div g >>

\* the summary of a list that is not empty, whose best match is best
apfs_statistics(all_similarities, best) ==
    [total_matches |-> Len(all_similarities),
     best_similarity |-> best.similarity,
     average_similarity |-> Quotient(apfs_sum(all_similarities), Len(all_similarities)),
     has_strong_match |-> (best.similarity >= StrongMatch)]

\* a variant of apfs_summary: no branch for the empty list, max() raises on it
\* and the except clause answers
apfs_summary_unguarded(all_similarities) ==
    IF all_similarities # << >>
    THEN apfs_statistics(all_similarities, best_match(all_similarities))
    ELSE [total_matches |-> 0]

\* results['summary']
apfs_summary(all_similarities) ==
    IF all_similarities # << >>
    THEN apfs_statistics(all_similarities, best_match(all_similarities))
    ELSE [total_matches |-> 0, best_similarity |-> 0, average_similarity |-> << 0, 1 >>,
          has_strong_match |-> FALSE]

\* results and what the call did, from the encodings arch of the archive
\* images, the outcome w of the loop over the URLs, and all_similarities
apfs_results(archive_image_paths, wikidata_image_urls, arch, w, all_similarities) ==
    [cache |-> w.cache,
     fetches |-> w.fetches,
     detector_calls |-> archive_image_paths,
     results |->
        [archive_faces |->
            [k \in { i - 1 : i \in { n \in 1..Len(arch) : arch[n] # << >> } } |->
                [image_path |-> archive_image_paths[k + 1], face_count |-> Len(arch[k + 1])]],
         wikidata_faces |->
            [k \in { i - 1 : i \in { n \in 1..Len(w.encodings) : w.encodings[n] # << >> } } |->
                [image_url |-> wikidata_image_urls[k + 1],
                 face_count |-> Len(w.encodings[k + 1])]],
         similarities |-> all_similarities,
         summary |-> apfs_summary(all_similarities)]]

\* the comparison of all combinations, then the results
apfs_analysis(archive_image_paths, wikidata_image_urls, arch, w) ==
    apfs_results(archive_image_paths, wikidata_image_urls, arch, w,
                 apfs_compare(arch, w.encodings, apfs_keys(arch), apfs_keys(w.encodings), 0))

\* analyze_person_face_similarity on the in-memory cache. An archive image
\* path is the URN of its directory. The result: the cache after the call, the
\* downloads made, the paths get_face_encodings was called on, and the report.
analyze_person_face_similarity(cache, archive_image_paths, wikidata_image_urls, down) ==
    apfs_analysis(archive_image_paths, wikidata_image_urls,
                  [i \in 1..Len(archive_image_paths) |->
                      get_face_encodings(Archive(archive_image_paths[i])).value],
                  apfs_wikidata_loop(cache, wikidata_image_urls, down, 1))

----------------------------------------------------------------------------
(* Actions of the reference cache and the matcher *)

NotCalledUrl == [state |-> "idle", url |-> "", value |-> << >>, fetch |-> FALSE]

NotCalledReport ==
    [state |-> "idle", archive_image_paths |-> << >>, wikidata_image_urls |-> << >>,
     detector_calls |-> << >>,
     results |-> [archive_faces |-> << >>, wikidata_faces |-> << >>,
                  similarities |-> << >>, summary |-> [total_matches |-> 0]]]

\* the downloads of a call, appended to the record of each URL
Fetched(fetches) ==
    [u \in ReferenceUrls |->
        fetched[u] \o [k \in 1..Len(SelectSeq(fetches, LAMBDA f : f.url = u)) |->
                          SelectSeq(fetches, LAMBDA f : f.url = u)[k].value]]

\* the archive image lists and reference URL lists the matcher is called with
ArchivePathLists ==
    { << >>, << "urn:1" >>, << "urn:5", "urn:4" >>, << "urn:4", "urn:1" >>,
      << "urn:3", "urn:1", "urn:2" >> }

ReferenceUrlLists ==
    { << >>, << "url:1" >>, << "url:3", "url:2" >>, << "url:2", "url:1" >>,
      << "url:1", "url:1" >> }

\* the call returns r
GfeuReturns(image_url, r) ==
    /\ wikidata_face_cache' = r.cache
    /\ wikidata_cache_file' = IF r.fetch THEN save_wikidata_cache(r.cache)
                              ELSE wikidata_cache_file
    /\ fetched' = Fetched(IF r.fetch THEN << [url |-> image_url, value |-> r.value] >>
                          ELSE << >>)
    /\ urlOut' = [state |-> "returned", url |-> image_url, value |-> r.value,
                  fetch |-> r.fetch]

GetFaceEncodingsFromUrl(image_url, response_ok) ==
    /\ Len(fetched[image_url]) < MaxFetches
    /\ GfeuReturns(image_url,
                   get_face_encodings_from_url(wikidata_face_cache, image_url, response_ok))
    /\ UNCHANGED report
    /\ UNCHANGED detVars /\ UNCHANGED cmpVars /\ UNCHANGED storeVars /\ UNCHANGED batchVars
    /\ UNCHANGED extVars

\* the call returns r
ApfsReturns(archive_image_paths, wikidata_image_urls, r) ==
    /\ wikidata_face_cache' = r.cache
    /\ wikidata_cache_file' = IF r.fetches # << >> THEN save_wikidata_cache(r.cache)
                              ELSE wikidata_cache_file
    /\ fetched' = Fetched(r.fetches)
    /\ report' = [state |-> "returned",
                  archive_image_paths |-> archive_image_paths,
                  wikidata_image_urls |-> wikidata_image_urls,
                  detector_calls |-> r.detector_calls,
                  results |-> r.results]

AnalyzePersonFaceSimilarity(archive_image_paths, wikidata_image_urls, down) ==
    /\ \A i \in 1..Len(wikidata_image_urls) :
          Len(fetched[wikidata_image_urls[i]]) < MaxFetches
    /\ ApfsReturns(archive_image_paths, wikidata_image_urls,
                   analyze_person_face_similarity(wikidata_face_cache, archive_image_paths,
                                                  wikidata_image_urls, down))
    /\ UNCHANGED urlOut
    /\ UNCHANGED detVars /\ UNCHANGED cmpVars /\ UNCHANGED storeVars /\ UNCHANGED batchVars
    /\ UNCHANGED extVars

\* a new FaceDetectionSystem: __init__ loads the cache file
LoadWikidataCache ==
    /\ wikidata_face_cache' = load_wikidata_cache(wikidata_cache_file)
    /\ UNCHANGED <<wikidata_cache_file, fetched, urlOut, report>>
    /\ UNCHANGED detVars /\ UNCHANGED cmpVars /\ UNCHANGED storeVars /\ UNCHANGED batchVars
    /\ UNCHANGED extVars

\* clear_wikidata_cache.py, clear_wikidata_face_cache: the cache file is
\* unlinked; the running process keeps its cache in memory
ClearWikidataFaceCache ==
    /\ wikidata_cache_file # EmptyCache
    /\ wikidata_cache_file' = EmptyCache
    /\ UNCHANGED <<wikidata_face_cache, fetched, urlOut, report>>
    /\ UNCHANGED detVars /\ UNCHANGED cmpVars /\ UNCHANGED storeVars /\ UNCHANGED batchVars
    /\ UNCHANGED extVars

MatcherAtRest ==
    /\ wikidata_face_cache = EmptyCache
    /\ wikidata_cache_file = EmptyCache
    /\ fetched = [u \in ReferenceUrls |-> << >>]
    /\ urlOut = NotCalledUrl
    /\ report = NotCalledReport

----------------------------------------------------------------------------
(* main: the batch run over the images of the archive *)

\* longest list of image files the glob of a run finds
MaxBatch == 3

\* a variant of count_image: an image that failed is not counted
count_image_processed_only(counts, ok) ==
    IF ok THEN [counts EXCEPT !.processed_count = @ + 1] ELSE counts

\* `if processor.process_image_file(...): processed_count += 1 else: failed_count += 1`
count_image(counts, ok) ==
    IF ok THEN [counts EXCEPT !.processed_count = @ + 1]
    ELSE [counts EXCEPT !.failed_count = @ + 1]

NotStarted ==
    [state |-> "idle", image_files |-> << >>, i |-> 0,
     processed_count |-> 0, failed_count |-> 0, faces_found |-> 0]

\* archive_path.glob("urn*/image.jpg"): the list found; none found, main returns
MainGlob(image_files) ==
    /\ batch.state = "idle"
    /\ batch' = [NotStarted EXCEPT !.state = IF image_files = << >> THEN "nothing_found"
                                             ELSE "running",
                                   !.image_files = image_files]
    /\ UNCHANGED detVars /\ UNCHANGED cmpVars /\ UNCHANGED storeVars /\ UNCHANGED matchVars
    /\ UNCHANGED extVars

\* one pass of the loop of main: process_image_file on the next image file
MainStep ==
    /\ batch.state = "running"
    /\ batch.i < Len(batch.image_files)
    /\ ~txn.open
    /\ LET urn == batch.image_files[batch.i + 1]
           r == process_image_file([rows |-> faces, seq |-> faceSeq],
                                   [rows |-> image_names, seq |-> nameSeq],
                                   Archive(urn), urn)
       IN  /\ faces' = r.ft.rows
           /\ faceSeq' = r.ft.seq
           /\ image_names' = r.nt.rows
           /\ nameSeq' = r.nt.seq
           /\ lastCall' = Call("process_image_file", urn, r.ret, r.hashes)
           /\ batch' = [count_image(batch, r.ret = 1) EXCEPT !.i = @ + 1]
    /\ UNCHANGED txn
    /\ UNCHANGED detVars /\ UNCHANGED cmpVars /\ UNCHANGED matchVars
    /\ UNCHANGED extVars

\* after the loop: get_all_faces and the three counts logged
MainReport ==
    /\ batch.state = "running"
    /\ batch.i = Len(batch.image_files)
    /\ batch' = [batch EXCEPT !.state = "reported", !.faces_found = Cardinality(faces)]
    /\ UNCHANGED detVars /\ UNCHANGED cmpVars /\ UNCHANGED storeVars /\ UNCHANGED matchVars
    /\ UNCHANGED extVars

BatchAtRest == batch = NotStarted

----------------------------------------------------------------------------
(* FaceDatabase.get_all_faces, FaceProcessor.find_similar_faces and the      *)
(* endpoint get_similar_faces                                                *)

\* greatest limit a query is made with
MaxLimit == 2

\* The column face_encoding holds face_encoding.tobytes(). The model keeps of a
\* BLOB the float64 values of its whole 8-byte words, followed by
\* TrailingBytes when bytes are left over.
TrailingBytes == 1000

\* np.frombuffer(blob, dtype=np.float64): ValueError when the size of the
\* buffer is no multiple of the element size
frombuffer(blob) ==
    IF blob # << >> /\ blob[Len(blob)] = TrailingBytes
    THEN [raises |-> TRUE, value |-> << >>]
    ELSE [raises |-> FALSE, value |-> blob]

\* cursor.fetchall() of the SELECT without ORDER BY: the scan of the table, in
\* the order of the ids
RECURSIVE fetchall(_)
fetchall(rows) ==
    IF rows = {} THEN << >>
    ELSE LET first == CHOOSE r \in rows : \A q \in rows : r.id <= q.id
         IN  << first >> \o fetchall(rows \ { first })

\* the dicts built from the rows fetched
gaf_faces(fetched_rows) ==
    [k \in 1..Len(fetched_rows) |->
        [fetched_rows[k] EXCEPT !.face_encoding = frombuffer(@).value]]

\* FaceDatabase.get_all_faces: `except Exception: return []`
get_all_faces(rows) ==
    IF \E r \in rows : frombuffer(r.face_encoding).raises
    THEN << >>
    ELSE gaf_faces(fetchall(rows))

\* the number of float64 of an encoding (128 of face_recognition's)
EncodingLength == 2

\* numpy's broadcasting of [target] - face_encoding: the shapes (1, n) and (k,)
\* go together when k = n or one of them is 1
shapes_broadcast(target, face_encoding) ==
    Len(face_encoding) = Len(target) \/ Len(face_encoding) = 1 \/ Len(target) = 1

broadcast_to(v, n) == IF Len(v) = n THEN v ELSE [i \in 1..n |-> v[1]]

\* the dict appended for one face
fsf_entry(face, name_rows, target) ==
    [face |-> face,
     similarity |-> Similarity(face_distance(broadcast_to(target, EncodingLength),
                                             broadcast_to(face.face_encoding, EncodingLength))),
     distance |-> face_distance(broadcast_to(target, EncodingLength),
                                broadcast_to(face.face_encoding, EncodingLength)),
     image_names |-> get_image_names(name_rows, face.image_urn)]

\* s[:limit]
py_head(s, limit) ==
    IF limit >= 0
    THEN SubSeq(s, 1, IF limit < Len(s) THEN limit ELSE Len(s))
    ELSE SubSeq(s, 1, IF Len(s) + limit > 0 THEN Len(s) + limit ELSE 0)

\* a variant of fsf_rank: the list is cut to limit before it is sorted
fsf_rank_cut_first(similarities, limit) ==
    sort_by_similarity(py_head(similarities, limit))

\* similarities.sort(key=similarity, reverse=True); return similarities[:limit]
fsf_rank(similarities, limit) ==
    py_head(sort_by_similarity(similarities), limit)

\* find_similar_faces from the list get_all_faces returned
fsf_similar(all_faces, name_rows, target, limit) ==
    IF all_faces = << >>
    THEN [state |-> "returned", value |-> << >>]
    ELSE IF \E k \in 1..Len(all_faces) :
               ~shapes_broadcast(target, all_faces[k].face_encoding)
    THEN [state |-> "raised", value |-> << >>]
    ELSE [state |-> "returned",
          value |-> fsf_rank([k \in 1..Len(all_faces) |->
                                 fsf_entry(all_faces[k], name_rows, target)], limit)]

\* FaceProcessor.find_similar_faces on the committed tables
find_similar_faces(rows, name_rows, target, limit) ==
    fsf_similar(get_all_faces(rows), name_rows, target, limit)

\* the entry of the response for one similar face
gsf_format(similar_face) ==
    [face |-> [id |-> similar_face.face.id, face_hash |-> similar_face.face.face_hash,
               image_urn |-> similar_face.face.image_urn,
               face_index |-> similar_face.face.face_index,
               face_image_path |-> similar_face.face.face_image_path],
     similarity |-> similar_face.similarity,
     distance |-> similar_face.distance,
     image_names |-> similar_face.image_names]

\* the response from what find_similar_faces did: the target face removed,
\* the list cut to limit; `except Exception: 500`
gsf_results(similar, face_id, limit) ==
    IF similar.state = "raised"
    THEN [status |-> 500, value |-> << >>]
    ELSE [status |-> 200,
          value |-> [k \in 1..Len(py_head(SelectSeq(similar.value,
                                              LAMBDA sf : sf.face.id # face_id), limit)) |->
                        gsf_format(py_head(SelectSeq(similar.value,
                                              LAMBDA sf : sf.face.id # face_id), limit)[k])]]

\* the endpoint from the list its own get_all_faces returned
gsf_target(all_faces, rows, name_rows, face_id, limit) ==
    IF ~ \E k \in 1..Len(all_faces) : all_faces[k].id = face_id
    THEN [status |-> 404, value |-> << >>]
    ELSE gsf_results(find_similar_faces(rows, name_rows,
                        all_faces[CHOOSE k \in 1..Len(all_faces) :
                                     all_faces[k].id = face_id].face_encoding,
                        limit + 1),
                     face_id, limit)

\* get_similar_faces(face_id) with the request argument limit
get_similar_faces(rows, name_rows, face_id, limit) ==
    gsf_target(get_all_faces(rows), rows, name_rows, face_id, limit)

NotCalledQuery ==
    [op |-> "none", target |-> << >>, face_id |-> 0, limit |-> 0,
     state |-> "idle", status |-> 0, faces |-> {}, value |-> << >>]

\* the encodings find_similar_faces is called with
QueryTargets == CmpEncodings

\* BLOBs that are no encoding: three float64, and one float64 and spare bytes
BadBlobs == { << 5, 0, 0 >>, << 5, TrailingBytes >> }

GetAllFaces ==
    /\ ~txn.open
    /\ query' = [NotCalledQuery EXCEPT !.op = "get_all_faces", !.state = "returned",
                                       !.faces = faces, !.value = get_all_faces(faces)]
    /\ UNCHANGED detVars /\ UNCHANGED cmpVars /\ UNCHANGED storeVars
    /\ UNCHANGED matchVars /\ UNCHANGED batchVars /\ UNCHANGED imgVars
    /\ UNCHANGED boxVars /\ UNCHANGED personOut

\* the call ends as r
FsfEnds(target, limit, r) ==
    query' = [NotCalledQuery EXCEPT !.op = "find_similar_faces", !.target = target,
                                    !.limit = limit, !.state = r.state,
                                    !.faces = faces, !.value = r.value]

FindSimilarFaces(target, limit) ==
    /\ ~txn.open
    /\ FsfEnds(target, limit, find_similar_faces(faces, image_names, target, limit))
    /\ UNCHANGED detVars /\ UNCHANGED cmpVars /\ UNCHANGED storeVars
    /\ UNCHANGED matchVars /\ UNCHANGED batchVars /\ UNCHANGED imgVars
    /\ UNCHANGED boxVars /\ UNCHANGED personOut

\* the request is answered by r
GsfEnds(face_id, limit, r) ==
    query' = [NotCalledQuery EXCEPT !.op = "get_similar_faces", !.face_id = face_id,
                                    !.limit = limit, !.state = "returned",
                                    !.status = r.status,
                                    !.faces = faces, !.value = r.value]

GetSimilarFaces(face_id, limit) ==
    /\ ~txn.open
    /\ GsfEnds(face_id, limit, get_similar_faces(faces, image_names, face_id, limit))
    /\ UNCHANGED detVars /\ UNCHANGED cmpVars /\ UNCHANGED storeVars
    /\ UNCHANGED matchVars /\ UNCHANGED batchVars /\ UNCHANGED imgVars
    /\ UNCHANGED boxVars /\ UNCHANGED personOut

\* the file faces.db is damaged: the BLOB of a stored face, the others being
\* sound, is no encoding
DamageEmbedding(id, blob) ==
    /\ ~txn.open
    /\ \E r \in faces : r.id = id
    /\ \A r \in faces : frombuffer(r.face_encoding).value \in CmpEncodings
    /\ faces' = { IF r.id = id THEN [r EXCEPT !.face_encoding = blob] ELSE r : r \in faces }
    /\ UNCHANGED <<faceSeq, image_names, nameSeq, txn, lastCall>>
    /\ UNCHANGED detVars /\ UNCHANGED cmpVars
    /\ UNCHANGED matchVars /\ UNCHANGED batchVars /\ UNCHANGED extVars

----------------------------------------------------------------------------
(* WikidataImageCache (wikidata_cache.py) *)

\* most SPARQL queries, and most image downloads, the model follows for one entity
MaxRequests == 2

\* the links fetch_wikidata_image is called with; the last is no Wikidata URL
WikidataLinks == { "wikidata.org/entity/Q1", "wikidata.org/entity/Q2", "viaf.org/42" }

Entities == { "Q1", "Q2" }

\* get_entity_id: the last segment of a URL that has 'wikidata.org' in it, the
\* empty string standing for None
get_entity_id(wikidata_url) ==
    CASE wikidata_url \in { "wikidata.org/entity/Q1", "wikidata.org/wiki/Q1" } -> "Q1"
      [] wikidata_url \in { "wikidata.org/entity/Q2", "wikidata.org/wiki/Q2" } -> "Q2"
      [] OTHER -> ""

\* the bindings of the SPARQL query for P18: Q1 has an image, Q2 has none
bindings(entity_id) == IF entity_id = "Q1" THEN << "commons/Q1.jpg" >> ELSE << >>

\* f"{entity_id}_{url_hash}{file_ext}"
filename(entity_id, image_url) == << entity_id, image_url, ".jpg" >>

\* Python's None in a field of a metadata entry; a file name is a tuple, so
\* None is the empty one there
NoUrl == ""
NoPath == << >>
NoError == ""

\* the three entries fetch_wikidata_image writes
FoundEntry(entity_id, image_url) ==
    [image_url |-> image_url, image_path |-> filename(entity_id, image_url), error |-> NoError]
NegativeEntry == [image_url |-> NoUrl, image_path |-> NoPath, error |-> "No image found"]
ErrorEntry == [image_url |-> NoUrl, image_path |-> NoPath, error |-> "str(e)"]

EmptyMetadata == [e \in {} |-> NegativeEntry]

\* self.metadata[entity_id] = entry
metadata_put(m, entity_id, entry) ==
    [e \in DOMAIN m \cup { entity_id } |-> IF e = entity_id THEN entry ELSE m[e]]

\* self.metadata.get(entity_id): a set with the entry, empty for None
metadata_get(m, entity_id) == IF entity_id \in DOMAIN m THEN { m[entity_id] } ELSE {}

\* (self.cache_dir / path).exists()
exists(dir, files, path) == dir /\ path \in DOMAIN files

\* a variant of cache_hit: an entry of the entity is enough
cache_hit_any_entry(m, dir, files, entity_id) == entity_id \in DOMAIN m

\* `if entity_id in self.metadata` and `cached_data.get('image_path') and
\* (self.cache_dir / cached_data['image_path']).exists()`
cache_hit(m, dir, files, entity_id) ==
    /\ entity_id \in DOMAIN m
    /\ m[entity_id].image_path # NoPath
    /\ exists(dir, files, m[entity_id].image_path)

\* get_cached_image_path: a set with the path, empty for None
get_cached_image_path(m, dir, files, wikidata_url) ==
    IF get_entity_id(wikidata_url) = "" \/ get_entity_id(wikidata_url) \notin DOMAIN m
    THEN {}
    ELSE IF m[get_entity_id(wikidata_url)].image_path # NoPath
            /\ exists(dir, files, m[get_entity_id(wikidata_url)].image_path)
    THEN { m[get_entity_id(wikidata_url)].image_path }
    ELSE {}

\* load_metadata: json.load of the file when it exists
load_metadata(file) == IF file.status = "written" THEN file.data ELSE EmptyMetadata

NoFile == [status |-> "absent", data |-> EmptyMetadata]

Callers == { "c1", "c2" }

\* raced: the call began while another caller's call for the same entity was
\* under way, or such a call began while this one was under way
NotCalling ==
    [pc |-> "idle", entity_id |-> "", in_except |-> FALSE, wrote |-> FALSE,
     raced |-> FALSE, result |-> {}]

NoRequests == [sparql |-> 0, image |-> 0, cached |-> {}]

UnderWay(call) == call.pc \notin { "idle", "returned", "raised" }

\* the call of caller c for the entity, begun beside the calls under way
fwi_begin(c, entity_id, hit) ==
    [d \in Callers |->
        IF d = c
        THEN IF entity_id = "" THEN [NotCalling EXCEPT !.pc = "returned"]
             ELSE IF hit
             THEN [NotCalling EXCEPT !.pc = "returned", !.entity_id = entity_id,
                                     !.result = { metadata[entity_id] }]
             ELSE [NotCalling EXCEPT !.pc = "query", !.entity_id = entity_id,
                                     !.raced = \E o \in Callers \ { c } :
                                                  /\ UnderWay(caller[o])
                                                  /\ caller[o].entity_id = entity_id]
        ELSE IF entity_id # "" /\ ~hit /\ UnderWay(caller[d])
                /\ caller[d].entity_id = entity_id
             THEN [caller[d] EXCEPT !.raced = TRUE]
             ELSE caller[d]]

\* lines 41-49: the entity of the link, and the look into the cache
FwiCall(c, wikidata_url) ==
    /\ caller[c].pc \in { "idle", "returned", "raised" }
    /\ caller' = fwi_begin(c, get_entity_id(wikidata_url),
                           cache_hit(metadata, cache_dir, cache_files,
                                     get_entity_id(wikidata_url)))
    /\ UNCHANGED <<metadata, metadata_file, cache_dir, cache_files, wikidata_log, pathOut>>
    /\ UNCHANGED query /\ UNCHANGED boxVars /\ UNCHANGED personOut
    /\ UNCHANGED detVars /\ UNCHANGED cmpVars /\ UNCHANGED storeVars
    /\ UNCHANGED matchVars /\ UNCHANGED batchVars

\* the call of caller c goes into its except clause: the error entry is set
\* and save_metadata comes next
FwiExcept(c) ==
    /\ metadata' = metadata_put(metadata, caller[c].entity_id, ErrorEntry)
    /\ caller' = [caller EXCEPT ![c].in_except = TRUE, ![c].pc = "save_open"]

\* lines 52-81: the SPARQL query; response_ok is whether requests.get and
\* raise_for_status go through. No bindings: the negative entry is set.
FwiQuery(c, response_ok) ==
    /\ caller[c].pc = "query"
    /\ wikidata_log[caller[c].entity_id].sparql < MaxRequests
    /\ wikidata_log' = [wikidata_log EXCEPT ![caller[c].entity_id].sparql = @ + 1]
    /\ IF ~response_ok
       THEN FwiExcept(c)
       ELSE IF bindings(caller[c].entity_id) = << >>
       THEN /\ metadata' = metadata_put(metadata, caller[c].entity_id, NegativeEntry)
            /\ caller' = [caller EXCEPT ![c].pc = "save_open"]
       ELSE /\ caller' = [caller EXCEPT ![c].pc = "download"]
            /\ UNCHANGED metadata
    /\ UNCHANGED <<metadata_file, cache_dir, cache_files, pathOut>>
    /\ UNCHANGED query /\ UNCHANGED boxVars /\ UNCHANGED personOut
    /\ UNCHANGED detVars /\ UNCHANGED cmpVars /\ UNCHANGED storeVars
    /\ UNCHANGED matchVars /\ UNCHANGED batchVars

\* lines 86-87 and 116: download_image; when it returns None the call returns
\* self.metadata.get(entity_id)
FwiDownload(c, response_ok) ==
    /\ caller[c].pc = "download"
    /\ wikidata_log[caller[c].entity_id].image < MaxRequests
    /\ wikidata_log' = [wikidata_log EXCEPT ![caller[c].entity_id].image = @ + 1]
    /\ caller' = [caller EXCEPT ![c] =
          IF response_ok
          THEN [@ EXCEPT !.pc = "open_image"]
          ELSE [@ EXCEPT !.pc = "returned",
                         !.result = metadata_get(metadata, caller[c].entity_id)]]
    /\ UNCHANGED <<metadata, metadata_file, cache_dir, cache_files, pathOut>>
    /\ UNCHANGED query /\ UNCHANGED boxVars /\ UNCHANGED personOut
    /\ UNCHANGED detVars /\ UNCHANGED cmpVars /\ UNCHANGED storeVars
    /\ UNCHANGED matchVars /\ UNCHANGED batchVars

\* line 95: open(image_path, 'wb') creates or truncates the file; without the
\* directory it raises FileNotFoundError
FwiOpenImage(c) ==
    /\ caller[c].pc = "open_image"
    /\ IF cache_dir
       THEN /\ cache_files' =
                 [f \in DOMAIN cache_files
                        \cup { filename(caller[c].entity_id, bindings(caller[c].entity_id)[1]) } |->
                     IF f = filename(caller[c].entity_id, bindings(caller[c].entity_id)[1])
                     THEN "empty" ELSE cache_files[f]]
            /\ caller' = [caller EXCEPT ![c].pc = "write_image"]
            /\ UNCHANGED metadata
       ELSE /\ FwiExcept(c)
            /\ UNCHANGED cache_files
    /\ UNCHANGED <<metadata_file, cache_dir, wikidata_log, pathOut>>
    /\ UNCHANGED query /\ UNCHANGED boxVars /\ UNCHANGED personOut
    /\ UNCHANGED detVars /\ UNCHANGED cmpVars /\ UNCHANGED storeVars
    /\ UNCHANGED matchVars /\ UNCHANGED batchVars

\* a variant of write_image: the bytes are added to what the file holds
write_image_appended(content) == IF content = "empty" THEN "complete" ELSE "doubled"

\* f.write(image_data) on the file opened with 'wb': the file holds the image
write_image(content) == "complete"

\* lines 96-103: the bytes are written and the file closed (a file removed
\* meanwhile stays removed), then the entry of the image is set
FwiWriteImage(c) ==
    /\ caller[c].pc = "write_image"
    /\ cache_files' =
          [f \in DOMAIN cache_files |->
              IF f = filename(caller[c].entity_id, bindings(caller[c].entity_id)[1])
              THEN write_image(cache_files[f]) ELSE cache_files[f]]
    /\ metadata' = metadata_put(metadata, caller[c].entity_id,
                                FoundEntry(caller[c].entity_id,
                                           bindings(caller[c].entity_id)[1]))
    /\ caller' = [caller EXCEPT ![c].pc = "save_open", ![c].wrote = TRUE]
    /\ UNCHANGED <<metadata_file, cache_dir, wikidata_log, pathOut>>
    /\ UNCHANGED query /\ UNCHANGED boxVars /\ UNCHANGED personOut
    /\ UNCHANGED detVars /\ UNCHANGED cmpVars /\ UNCHANGED storeVars
    /\ UNCHANGED matchVars /\ UNCHANGED batchVars

\* save_metadata, line 30: open(self.metadata_file, 'w') creates or truncates
\* the file; without the directory it raises FileNotFoundError, which in the
\* try block leads to the except clause and in the except clause leaves the call
FwiSaveOpen(c) ==
    /\ caller[c].pc = "save_open"
    /\ IF cache_dir
       THEN /\ metadata_file' = [status |-> "truncated", data |-> EmptyMetadata]
            /\ caller' = [caller EXCEPT ![c].pc = "save_write"]
            /\ UNCHANGED metadata
       ELSE IF caller[c].in_except
       THEN /\ caller' = [caller EXCEPT ![c].pc = "raised"]
            /\ UNCHANGED <<metadata, metadata_file>>
       ELSE /\ FwiExcept(c)
            /\ UNCHANGED metadata_file
    /\ UNCHANGED <<cache_dir, cache_files, wikidata_log, pathOut>>
    /\ UNCHANGED query /\ UNCHANGED boxVars /\ UNCHANGED personOut
    /\ UNCHANGED detVars /\ UNCHANGED cmpVars /\ UNCHANGED storeVars
    /\ UNCHANGED matchVars /\ UNCHANGED batchVars

\* save_metadata, line 31, and the return of the call: json.dump writes
\* self.metadata as it is now and the file is closed (a file removed meanwhile
\* stays removed); the call returns the entry of the entity as it is now
FwiSaveWrite(c) ==
    /\ caller[c].pc = "save_write"
    /\ metadata_file' = IF metadata_file.status = "absent" THEN metadata_file
                        ELSE [status |-> "written", data |-> metadata]
    /\ caller' = [caller EXCEPT ![c].pc = "returned",
                                ![c].result = metadata_get(metadata, caller[c].entity_id)]
    /\ wikidata_log' =
          [wikidata_log EXCEPT ![caller[c].entity_id].cached =
              IF @ = {} /\ caller[c].wrote /\ ~caller[c].in_except
              THEN { FoundEntry(caller[c].entity_id, bindings(caller[c].entity_id)[1]) }
              ELSE @]
    /\ UNCHANGED <<metadata, cache_dir, cache_files, pathOut>>
    /\ UNCHANGED query /\ UNCHANGED boxVars /\ UNCHANGED personOut
    /\ UNCHANGED detVars /\ UNCHANGED cmpVars /\ UNCHANGED storeVars
    /\ UNCHANGED matchVars /\ UNCHANGED batchVars

NotCalledPath == [wikidata_url |-> "", value |-> {}]

GetCachedImagePath(wikidata_url) ==
    /\ pathOut' = [wikidata_url |-> wikidata_url,
                   value |-> get_cached_image_path(metadata, cache_dir, cache_files,
                                                   wikidata_url)]
    /\ UNCHANGED <<metadata, metadata_file, cache_dir, cache_files, caller, wikidata_log>>
    /\ UNCHANGED query /\ UNCHANGED boxVars /\ UNCHANGED personOut
    /\ UNCHANGED detVars /\ UNCHANGED cmpVars /\ UNCHANGED storeVars
    /\ UNCHANGED matchVars /\ UNCHANGED batchVars

\* the application starts anew: WikidataImageCache.__init__ makes the
\* directory and loads metadata.json (a file that is no JSON ends the start)
NewWikidataImageCache ==
    /\ metadata_file.status # "truncated"
    /\ cache_dir' = TRUE
    /\ metadata' = load_metadata(metadata_file)
    /\ caller' = [c \in Callers |-> NotCalling]
    /\ UNCHANGED <<metadata_file, cache_files, wikidata_log, pathOut>>
    /\ UNCHANGED query /\ UNCHANGED boxVars /\ UNCHANGED personOut
    /\ UNCHANGED detVars /\ UNCHANGED cmpVars /\ UNCHANGED storeVars
    /\ UNCHANGED matchVars /\ UNCHANGED batchVars

\* an image file of the cache is removed by hand, between two calls
RemoveCachedFile(f) ==
    /\ f \in DOMAIN cache_files
    /\ \A c \in Callers : ~UnderWay(caller[c])
    /\ cache_files' = [g \in DOMAIN cache_files \ { f } |-> cache_files[g]]
    /\ UNCHANGED <<metadata, metadata_file, cache_dir, caller, wikidata_log, pathOut>>
    /\ UNCHANGED query /\ UNCHANGED boxVars /\ UNCHANGED personOut
    /\ UNCHANGED detVars /\ UNCHANGED cmpVars /\ UNCHANGED storeVars
    /\ UNCHANGED matchVars /\ UNCHANGED batchVars

\* clear_wikidata_cache.py, clear_wikidata_image_cache: shutil.rmtree(cache_dir),
\* run between two calls
ClearWikidataImageCache ==
    /\ cache_dir
    /\ \A c \in Callers : ~UnderWay(caller[c])
    /\ cache_dir' = FALSE
    /\ cache_files' = [f \in {} |-> "empty"]
    /\ metadata_file' = NoFile
    /\ UNCHANGED <<metadata, caller, wikidata_log, pathOut>>
    /\ UNCHANGED query /\ UNCHANGED boxVars /\ UNCHANGED personOut
    /\ UNCHANGED detVars /\ UNCHANGED cmpVars /\ UNCHANGED storeVars
    /\ UNCHANGED matchVars /\ UNCHANGED batchVars

----------------------------------------------------------------------------
(* FaceDetectionSystem.get_faces_with_boxes and its cache face_cache *)

\* most calls of get_faces_with_boxes in a run
MaxCalls == 3

\* the paths get_faces_with_boxes is called with
BoxPaths == { "urn:1", "urn:2", "urn:7" }

\* the files put in place of the image of a path
Replacements == { "urn:2", "urn:6", "urn:3" }

\* the calls of face_recognition.face_locations made by the loop of
\* detect_faces from position k on: the loop ends at the first call that raises
RECURSIVE df_invocations(_, _)
df_invocations(im, k) ==
    IF k > Len(orientations_to_try) THEN 0
    ELSE IF im.det[orientations_to_try[k]].raises THEN 1
    ELSE 1 + df_invocations(im, k + 1)

\* create_image_with_face_boxes, the loop over the orientations from position
\* k on: the best rotation, exc when face_locations raised
RECURSIVE cib_loop(_, _, _)
cib_loop(im, k, best) ==
    IF k > Len(orientations_to_try) THEN [exc |-> FALSE, best |-> best]
    ELSE LET rotation == orientations_to_try[k]
             outcome  == im.det[rotation]
         IN  IF outcome.raises THEN [exc |-> TRUE, best |-> best]
             ELSE IF Len(outcome.locations) > best.count
                  THEN cib_loop(im, k + 1, [count |-> Len(outcome.locations),
                                            rotation |-> rotation])
                  ELSE cib_loop(im, k + 1, best)

\* create_image_with_face_boxes for a list of faces that is not empty: the
\* JPEG bytes of the image turned by the best rotation with a box for each
\* face, or None (the empty set) when an exception was caught
create_image_with_face_boxes(im, faces_found) ==
    IF im.status # "ok" THEN {}
    ELSE LET r == cib_loop(im, 1, [count |-> 0, rotation |-> 0])
         IN  IF r.exc THEN {}
             ELSE { [rotation |-> r.best.rotation,
                     boxes |-> [i \in 1..Len(faces_found) |->
                                  << faces_found[i].left, faces_found[i].top,
                                     faces_found[i].right, faces_found[i].bottom,
                                     faces_found[i].id >>]] }

\* the result get_faces_with_boxes builds when the path is not in the cache
gfwb_result(im) ==
    LET found == detect_faces(im).value
    IN  [faces |-> found,
         face_count |-> Len(found),
         image_with_boxes |-> IF found # << >> THEN create_image_with_face_boxes(im, found)
                              ELSE {}]

\* the calls of the capability made for that result: the loop of
\* detect_faces, and the loop of create_image_with_face_boxes when faces were found
gfwb_invocations(im) ==
    IF im.status # "ok" THEN 0
    ELSE df_invocations(im, 1)
         + (IF detect_faces(im).value # << >> THEN Len(orientations_to_try) ELSE 0)

\* a variant of gfwb_cached: the cache is never consulted
gfwb_cached_never(cache, cache_key) == FALSE

\* `if cache_key in self.face_cache`
gfwb_cached(cache, cache_key) == cache_key \in DOMAIN cache

\* self.face_cache[cache_key] = result
face_cache_put(cache, cache_key, result) ==
    [k \in DOMAIN cache \cup { cache_key } |-> IF k = cache_key THEN result ELSE cache[k]]

\* get_faces_with_boxes: the value returned, the cache afterwards and the
\* calls of the capability made
get_faces_with_boxes(cache, files, image_path) ==
    IF gfwb_cached(cache, image_path)
    THEN [value |-> cache[image_path], cache |-> cache, invocations |-> 0]
    ELSE [value |-> gfwb_result(files[image_path]),
          cache |-> face_cache_put(cache, image_path, gfwb_result(files[image_path])),
          invocations |-> gfwb_invocations(files[image_path])]

NotCalledBoxes == [image_path |-> "", value |-> {}, invocations |-> 0, calls |-> 0]

EmptyFaceCache == [k \in {} |-> gfwb_result(Archive("urn:5"))]

GetFacesWithBoxes(image_path) ==
    /\ boxOut.calls < MaxCalls
    /\ LET r == get_faces_with_boxes(face_cache, disk, image_path)
       IN  /\ face_cache' = r.cache
           /\ boxOut' = [image_path |-> image_path, value |-> { r.value },
                         invocations |-> r.invocations, calls |-> boxOut.calls + 1]
    /\ UNCHANGED disk
    /\ UNCHANGED detVars /\ UNCHANGED cmpVars /\ UNCHANGED storeVars
    /\ UNCHANGED matchVars /\ UNCHANGED batchVars
    /\ UNCHANGED query /\ UNCHANGED imgVars /\ UNCHANGED personOut

\* the image file of a path is replaced by another one
ReplaceImage(image_path, urn) ==
    /\ disk[image_path] = Archive(image_path)
    /\ disk' = [disk EXCEPT ![image_path] = Archive(urn)]
    /\ UNCHANGED <<face_cache, boxOut>>
    /\ UNCHANGED detVars /\ UNCHANGED cmpVars /\ UNCHANGED storeVars
    /\ UNCHANGED matchVars /\ UNCHANGED batchVars
    /\ UNCHANGED query /\ UNCHANGED imgVars /\ UNCHANGED personOut

BoxesAtRest ==
    /\ face_cache = EmptyFaceCache
    /\ disk = [p \in BoxPaths |-> Archive(p)]
    /\ boxOut = NotCalledBoxes

----------------------------------------------------------------------------
(* app.py, get_person_face_data: the face data and the match report of a person *)

\* most calls of get_person_face_data in a run
MaxPersonCalls == 2

\* the images and the Wikidata links of the persons asked for
PersonUrnLists == { << >>, << "urn:1" >>, << "urn:7" >>, << "urn:2" >>, << "urn:2", "urn:1" >> }

PersonLinkLists ==
    { << >>, << "wikidata.org/entity/Q1" >>, << "wikidata.org/entity/Q2" >>,
      << "viaf.org/42", "wikidata.org/entity/Q1" >>,
      << "wikidata.org/entity/Q2", "wikidata.org/entity/Q1" >> }

\* f"http://localhost:{FLASK_PORT}/api/wikidata-image/{entity_id}"
full_image_url(entity_id) == IF entity_id = "Q1" THEN "url:1" ELSE "url:2"

\* the loop over all_urns from position i on: get_faces_with_boxes on every
\* image that exists. The result: face_cache after the loop and images_with_faces
RECURSIVE gpfd_images(_, _, _, _)
gpfd_image(files, urns, i, r, rest) ==
    [cache |-> rest.cache,
     images |-> << [urn |-> urns[i], faces |-> r.value.faces,
                    face_count |-> r.value.face_count,
                    has_faces |-> (r.value.face_count > 0)] >> \o rest.images]

gpfd_images_pass(files, urns, i, r) ==
    gpfd_image(files, urns, i, r, gpfd_images(r.cache, files, urns, i + 1))

gpfd_images(cache, files, urns, i) ==
    IF i > Len(urns) THEN [cache |-> cache, images |-> << >>]
    ELSE IF files[urns[i]].status = "missing" THEN gpfd_images(cache, files, urns, i + 1)
    ELSE gpfd_images_pass(files, urns, i, get_faces_with_boxes(cache, files, urns[i]))

\* fetch_wikidata_image by one caller, the directory of the cache in place;
\* query_ok and download_ok are whether the two requests go through. The
\* result: metadata and the files after the call, whether save_metadata ran,
\* the requests made, and the entry returned (the empty set for None)
fetch_wikidata_image(m, files, entity_id, query_ok, download_ok) ==
    IF entity_id = ""
    THEN [metadata |-> m, files |-> files, saved |-> FALSE, sparql |-> 0, image |-> 0,
          wrote |-> FALSE, value |-> {}]
    ELSE IF cache_hit(m, TRUE, files, entity_id)
    THEN [metadata |-> m, files |-> files, saved |-> FALSE, sparql |-> 0, image |-> 0,
          wrote |-> FALSE, value |-> { m[entity_id] }]
    ELSE IF ~query_ok
    THEN [metadata |-> metadata_put(m, entity_id, ErrorEntry), files |-> files,
          saved |-> TRUE, sparql |-> 1, image |-> 0, wrote |-> FALSE,
          value |-> { ErrorEntry }]
    ELSE IF bindings(entity_id) = << >>
    THEN [metadata |-> metadata_put(m, entity_id, NegativeEntry), files |-> files,
          saved |-> TRUE, sparql |-> 1, image |-> 0, wrote |-> FALSE,
          value |-> { NegativeEntry }]
    ELSE IF ~download_ok
    THEN [metadata |-> m, files |-> files, saved |-> FALSE, sparql |-> 1, image |-> 1,
          wrote |-> FALSE, value |-> metadata_get(m, entity_id)]
    ELSE [metadata |-> metadata_put(m, entity_id,
                                    FoundEntry(entity_id, bindings(entity_id)[1])),
          files |-> [f \in DOMAIN files \cup { filename(entity_id, bindings(entity_id)[1]) } |->
                        IF f = filename(entity_id, bindings(entity_id)[1])
                        THEN write_image("empty") ELSE files[f]],
          saved |-> TRUE, sparql |-> 1, image |-> 1, wrote |-> TRUE,
          value |-> { FoundEntry(entity_id, bindings(entity_id)[1]) }]

\* the state the loop over wikidata_links works on, after fetch_wikidata_image
\* gave f for the entity
gpfd_after_fetch(st, entity_id, f) ==
    [st EXCEPT !.metadata = f.metadata,
               !.files = f.files,
               !.file = IF f.saved THEN [status |-> "written", data |-> f.metadata] ELSE @,
               !.log = [@ EXCEPT ![entity_id] =
                           [sparql |-> @.sparql + f.sparql,
                            image |-> @.image + f.image,
                            cached |-> IF @.cached = {} /\ f.wrote THEN f.value ELSE @.cached]]]

\* the state after get_face_encodings_from_url gave r for the image of the entity
gpfd_after_encodings(st, entity_id, r) ==
    [st EXCEPT !.cache = r.cache,
               !.fetches = @ \o (IF r.fetch
                                 THEN << [url |-> full_image_url(entity_id), value |-> r.value] >>
                                 ELSE << >>),
               !.urls = Append(@, full_image_url(entity_id))]

\* `if image_data and not image_data.get('error')`
gpfd_has_image(image_data) == \E d \in image_data : d.error = NoError

\* one pass of the loop, after the fetch: the encodings of the image are asked
\* for at the address of the application itself, which serves the cached file
gpfd_link_fetched(st, entity_id, f) ==
    IF gpfd_has_image(f.value)
    THEN gpfd_after_encodings(
             gpfd_after_fetch(st, entity_id, f), entity_id,
             get_face_encodings_from_url(
                 st.cache, full_image_url(entity_id),
                 get_cached_image_path(f.metadata, TRUE, f.files,
                                       "wikidata.org/wiki/" \o entity_id) # {}))
    ELSE gpfd_after_fetch(st, entity_id, f)

\* the loop over wikidata_links from position i on; the requests for the
\* entities of query_down and image_down fail
RECURSIVE gpfd_links(_, _, _, _, _)
gpfd_links(st, links, i, query_down, image_down) ==
    IF i > Len(links) THEN st
    ELSE IF get_entity_id(links[i]) = ""
    THEN gpfd_links(st, links, i + 1, query_down, image_down)
    ELSE gpfd_links(gpfd_link_fetched(st, get_entity_id(links[i]),
                        fetch_wikidata_image(st.metadata, st.files, get_entity_id(links[i]),
                                             get_entity_id(links[i]) \notin query_down,
                                             get_entity_id(links[i]) \notin image_down)),
                    links, i + 1, query_down, image_down)

\* the paths of the images with faces that exist
gpfd_archive_image_paths(files, images) ==
    LET kept == SelectSeq(images, LAMBDA img : img.face_count > 0
                                               /\ files[img.urn].status # "missing")
    IN  [k \in 1..Len(kept) |-> kept[k].urn]

\* similarity['archive_urn'] = img['urn'] for every similarity of the report
gpfd_with_urns(results, archive_image_paths) ==
    [results EXCEPT !.similarities =
        [k \in 1..Len(@) |->
            @[k] @@ [archive_urn |-> archive_image_paths[@[k].archive_image_index + 1]]]]

\* the report when the matcher is not run
gpfd_no_analysis == [similarities |-> << >>, summary |-> [total_matches |-> 0]]

\* the matcher on the paths; the result: the cache, the downloads and the report
gpfd_analysed(archive_image_paths, a) ==
    [cache |-> a.cache, fetches |-> a.fetches,
     face_similarity |-> gpfd_with_urns(a.results, archive_image_paths)]

\* `if images_with_faces and wikidata_image_urls`, `if archive_image_paths`
gpfd_similarity(cache, files, images, wikidata_image_urls, archive_image_paths) ==
    IF images # << >> /\ wikidata_image_urls # << >> /\ archive_image_paths # << >>
    THEN gpfd_analysed(archive_image_paths,
                       analyze_person_face_similarity(cache, archive_image_paths,
                                                      wikidata_image_urls, {}))
    ELSE [cache |-> cache, fetches |-> << >>, face_similarity |-> gpfd_no_analysis]

NotCalledPerson ==
    [state |-> "idle", urns |-> << >>, wikidata_links |-> << >>, images |-> << >>,
     wikidata_image_urls |-> << >>, archive_image_paths |-> << >>,
     face_similarity |-> gpfd_no_analysis, calls |-> 0]

\* the call answers: boxes is what the loop over the images gave, w what the
\* loop over the links gave, sim what the analysis gave
GpfdReturns(urns, links, boxes, w, sim) ==
    /\ face_cache' = boxes.cache
    /\ metadata' = w.metadata
    /\ metadata_file' = w.file
    /\ cache_files' = w.files
    /\ wikidata_log' = w.log
    /\ wikidata_face_cache' = sim.cache
    /\ wikidata_cache_file' = IF w.fetches \o sim.fetches # << >>
                              THEN save_wikidata_cache(sim.cache) ELSE wikidata_cache_file
    /\ fetched' = Fetched(w.fetches \o sim.fetches)
    /\ personOut' = [state |-> "returned", urns |-> urns, wikidata_links |-> links,
                     images |-> boxes.images, wikidata_image_urls |-> w.urls,
                     archive_image_paths |-> gpfd_archive_image_paths(disk, boxes.images),
                     face_similarity |-> sim.face_similarity,
                     calls |-> personOut.calls + 1]

GpfdAnalyses(urns, links, boxes, w) ==
    GpfdReturns(urns, links, boxes, w,
                gpfd_similarity(w.cache, disk, boxes.images, w.urls,
                                gpfd_archive_image_paths(disk, boxes.images)))

\* get_person_face_data for a person with these images and links, by one
\* request at a time, the directory of the image cache in place
GetPersonFaceData(urns, links, query_down, image_down) ==
    /\ personOut.calls < MaxPersonCalls
    /\ cache_dir
    /\ \A c \in Callers : ~UnderWay(caller[c])
    /\ GpfdAnalyses(urns, links,
                    gpfd_images(face_cache, disk, urns, 1),
                    gpfd_links([metadata |-> metadata, file |-> metadata_file,
                                files |-> cache_files, log |-> wikidata_log,
                                cache |-> wikidata_face_cache, fetches |-> << >>,
                                urls |-> << >>],
                               links, 1, query_down, image_down))
    /\ UNCHANGED <<cache_dir, caller, pathOut, disk, boxOut, urlOut, report, query>>
    /\ UNCHANGED detVars /\ UNCHANGED cmpVars /\ UNCHANGED storeVars /\ UNCHANGED batchVars

ImageCacheAtRest ==
    /\ metadata = EmptyMetadata
    /\ metadata_file = NoFile
    /\ cache_dir = TRUE
    /\ cache_files = [f \in {} |-> "empty"]
    /\ caller = [c \in Callers |-> NotCalling]
    /\ wikidata_log = [e \in Entities |-> NoRequests]
    /\ pathOut = NotCalledPath

ExtAtRest ==
    /\ query = NotCalledQuery
    /\ ImageCacheAtRest
    /\ BoxesAtRest
    /\ personOut = NotCalledPerson

----------------------------------------------------------------------------
(* Specifications: one for each component, the others at rest *)

DetectorAtRest ==
    /\ image = Archive("urn:5")
    /\ dfOut = NotCalledDf
    /\ encOut = NotCalledEnc

ComparatorAtRest ==
    /\ cmpIn = [archive_encodings |-> << >>, wikidata_encodings |-> << >>,
                threshold |-> DefaultThreshold]
    /\ cmpOut = NotCalledCmp
    /\ cmpAgain = NotCalledAgain

StoreAtRest ==
    /\ faces = {}
    /\ faceSeq = 0
    /\ image_names = {}
    /\ nameSeq = 0
    /\ txn = Idle
    /\ lastCall = NoCall

\* the detector on every image file
InitDetect ==
    /\ image \in ImageFiles
    /\ dfOut = NotCalledDf
    /\ encOut = NotCalledEnc
    /\ ComparatorAtRest /\ StoreAtRest /\ MatcherAtRest /\ BatchAtRest /\ ExtAtRest

NextDetect == DetectFaces \/ GetFaceEncodings

SpecDetect == InitDetect /\ [][NextDetect]_vars

\* the comparator on every pair of encoding lists and every threshold
InitCompare ==
    /\ cmpIn \in [archive_encodings : SeqsUpTo(CmpEncodings, MaxEnc),
                  wikidata_encodings : SeqsUpTo(CmpEncodings, MaxEnc),
                  threshold : Thresholds]
    /\ cmpOut = NotCalledCmp
    /\ cmpAgain = NotCalledAgain
    /\ DetectorAtRest /\ StoreAtRest /\ MatcherAtRest /\ BatchAtRest /\ ExtAtRest

NextCompare ==
    \/ CompareFaces
    \/ \E threshold \in Thresholds : CompareFacesAtThreshold(threshold)
    \/ CompareFacesSwapped

SpecCompare == InitCompare /\ [][NextCompare]_vars

\* the ingestion: process_image_file on the images of the archive and
\* store_face called directly, from the empty database
InitIngest ==
    DetectorAtRest /\ ComparatorAtRest /\ StoreAtRest /\ MatcherAtRest /\ BatchAtRest /\ ExtAtRest

NextIngest ==
    \/ \E fd \in FaceDataInputs : StoreFace(fd)
    \/ \E image_urn \in ArchiveUrns : ProcessImageFile(image_urn)

SpecIngest == InitIngest /\ [][NextIngest]_vars

\* the database: store_face and store_image_names called directly, the latter
\* statement by statement, from the empty database
InitDatabase ==
    DetectorAtRest /\ ComparatorAtRest /\ StoreAtRest /\ MatcherAtRest /\ BatchAtRest /\ ExtAtRest

NextDatabase ==
    \/ \E fd \in FaceDataInputs : StoreFace(fd)
    \/ \E image_urn \in NameUrnInputs, names \in SeqsUpTo(NameDataInputs, MaxNames) :
          StoreImageNamesBegin(image_urn, names)
    \/ StoreImageNamesExecute
    \/ StoreImageNamesCommit

SpecDatabase == InitDatabase /\ [][NextDatabase]_vars

\* the reference cache and the matcher: get_face_encodings_from_url on every
\* URL, the matcher on lists of archive images and of URLs, downloads that may
\* fail, restarts, and the ingestion of an archive image
MatcherIngests == { "urn:1" }

InitMatcher ==
    DetectorAtRest /\ ComparatorAtRest /\ StoreAtRest /\ MatcherAtRest /\ BatchAtRest /\ ExtAtRest

NextMatcher ==
    \/ \E image_url \in ReferenceUrls, response_ok \in BOOLEAN :
          GetFaceEncodingsFromUrl(image_url, response_ok)
    \/ \E archive_image_paths \in ArchivePathLists, wikidata_image_urls \in ReferenceUrlLists :
          \E down \in SUBSET ({ wikidata_image_urls[i] : i \in 1..Len(wikidata_image_urls) }
                                 \ DOMAIN wikidata_face_cache) :
             AnalyzePersonFaceSimilarity(archive_image_paths, wikidata_image_urls, down)
    \/ LoadWikidataCache
    \/ \E image_urn \in MatcherIngests : ProcessImageFile(image_urn)

SpecMatcher == InitMatcher /\ [][NextMatcher]_vars

\* the batch run from the empty database, on every list of distinct images
\* among: two faces, no image, a crop that fails, gone, no face upright, and
\* a detection that raises
BatchUrns == { "urn:1", "urn:3", "urn:4", "urn:5", "urn:6", "urn:7" }

InitBatch ==
    DetectorAtRest /\ ComparatorAtRest /\ StoreAtRest /\ MatcherAtRest /\ BatchAtRest /\ ExtAtRest

NextBatch ==
    \/ \E image_files \in DistinctSeqs(BatchUrns, MaxBatch) : MainGlob(image_files)
    \/ MainStep
    \/ MainReport

SpecBatch == InitBatch /\ [][NextBatch]_vars

\* the loop of main is not interrupted: a step that can be taken is taken
SpecBatchLive == SpecBatch /\ WF_vars(NextBatch)

\* the cache of the encodings of the reference images: calls of
\* get_face_encodings_from_url whose download may fail, restarts, and the
\* clear script
NextFaceCache ==
    \/ \E image_url \in ReferenceUrls, response_ok \in BOOLEAN :
          GetFaceEncodingsFromUrl(image_url, response_ok)
    \/ LoadWikidataCache
    \/ ClearWikidataFaceCache

SpecFaceCache == InitMatcher /\ [][NextFaceCache]_vars

\* get_faces_with_boxes on the images of three paths, which may be replaced
\* on disk, next to the other operations of the detector
InitBoxes ==
    /\ DetectorAtRest /\ ComparatorAtRest /\ StoreAtRest /\ MatcherAtRest /\ BatchAtRest
    /\ ExtAtRest

NextBoxes ==
    \/ \E p \in BoxPaths : GetFacesWithBoxes(p)
    \/ \E p \in BoxPaths, u \in Replacements : ReplaceImage(p, u)
    \/ DetectFaces
    \/ GetFaceEncodings

SpecBoxes == InitBoxes /\ [][NextBoxes]_vars

\* get_person_face_data for persons with and without images with faces and
\* with and without reference images, the requests to Wikidata failing or not
NextPerson ==
    \E urns \in PersonUrnLists, links \in PersonLinkLists :
       \E query_down \in SUBSET Entities, image_down \in SUBSET Entities :
          GetPersonFaceData(urns, links, query_down, image_down)

SpecPerson == InitBoxes /\ [][NextPerson]_vars

\* the batch run on every list of distinct images among: two faces, one face
\* in the region of a face of the former, no image, and a crop that fails
OrderUrns == { "urn:1", "urn:2", "urn:3", "urn:4" }

NextOrder ==
    \/ \E image_files \in DistinctSeqs(OrderUrns, MaxBatch) : MainGlob(image_files)
    \/ MainStep
    \/ MainReport

SpecOrder == InitBatch /\ [][NextOrder]_vars

\* the cache of reference images: two callers at once, requests that may
\* fail, and restarts
InitImageCache ==
    DetectorAtRest /\ ComparatorAtRest /\ StoreAtRest /\ MatcherAtRest /\ BatchAtRest /\ ExtAtRest

NextImageCache ==
    \/ \E c \in Callers, wikidata_url \in WikidataLinks : FwiCall(c, wikidata_url)
    \/ \E c \in Callers, response_ok \in BOOLEAN : FwiQuery(c, response_ok)
    \/ \E c \in Callers, response_ok \in BOOLEAN : FwiDownload(c, response_ok)
    \/ \E c \in Callers : FwiOpenImage(c)
    \/ \E c \in Callers : FwiWriteImage(c)
    \/ \E c \in Callers : FwiSaveOpen(c)
    \/ \E c \in Callers : FwiSaveWrite(c)
    \/ \E wikidata_url \in WikidataLinks : GetCachedImagePath(wikidata_url)
    \/ NewWikidataImageCache

SpecImageCache == InitImageCache /\ [][NextImageCache]_vars

\* the same, and files of the cache are removed while the application runs
NextCleared ==
    \/ \E c \in Callers, wikidata_url \in WikidataLinks : FwiCall(c, wikidata_url)
    \/ \E c \in Callers, response_ok \in BOOLEAN : FwiQuery(c, response_ok)
    \/ \E c \in Callers, response_ok \in BOOLEAN : FwiDownload(c, response_ok)
    \/ \E c \in Callers : FwiOpenImage(c)
    \/ \E c \in Callers : FwiWriteImage(c)
    \/ \E c \in Callers : FwiSaveOpen(c)
    \/ \E c \in Callers : FwiSaveWrite(c)
    \/ \E wikidata_url \in WikidataLinks : GetCachedImagePath(wikidata_url)
    \/ NewWikidataImageCache
    \/ \E f \in DOMAIN cache_files : RemoveCachedFile(f)
    \/ ClearWikidataImageCache

SpecCleared == InitImageCache /\ [][NextCleared]_vars

\* the queries on a store filled by the ingestion of two images, one face of
\* which has the encoding of a face of the other, and by store_face
QueryIngests == { "urn:1", "urn:2" }

InitQuery ==
    DetectorAtRest /\ ComparatorAtRest /\ StoreAtRest /\ MatcherAtRest /\ BatchAtRest /\ ExtAtRest

NextQuery ==
    \/ \E fd \in FaceDataInputs : StoreFace(fd)
    \/ \E image_urn \in QueryIngests : ProcessImageFile(image_urn)
    \/ GetAllFaces
    \/ \E target \in QueryTargets, limit \in 0..MaxLimit : FindSimilarFaces(target, limit)
    \/ \E face_id \in 1..MaxId, limit \in 0..MaxLimit : GetSimilarFaces(face_id, limit)

SpecQuery == InitQuery /\ [][NextQuery]_vars

\* get_all_faces and find_similar_faces on a store of which the file may be
\* damaged
DamagedTargets == { DescriptorPoints[2] }

NextDamaged ==
    \/ \E fd \in FaceDataInputs : StoreFace(fd)
    \/ \E image_urn \in QueryIngests : ProcessImageFile(image_urn)
    \/ GetAllFaces
    \/ \E target \in DamagedTargets : FindSimilarFaces(target, MaxLimit)
    \/ \E id \in 1..MaxId, blob \in BadBlobs : DamageEmbedding(id, blob)

SpecDamaged == InitQuery /\ [][NextDamaged]_vars

----------------------------------------------------------------------------
(* The orientation-robust detector: C1 - C4 *)

\* the count of an orientation, one that raised counting as none
CountOf(im, r) == IF im.det[r].raises THEN 0 ELSE Len(im.det[r].locations)

\* the first orientation, in the order tried, whose count is the greatest
FirstGreatest(im) ==
    LET n == Len(orientations_to_try)
        k == CHOOSE i \in 1..n :
                /\ \A j \in 1..n : CountOf(im, orientations_to_try[j])
                                      <= CountOf(im, orientations_to_try[i])
                /\ \A j \in 1..(i - 1) : CountOf(im, orientations_to_try[j])
                                            < CountOf(im, orientations_to_try[i])
    IN  orientations_to_try[k]

NoneRaises(im) == \A r \in Rotations : ~im.det[r].raises

\* C1: when the image opens and detection returns for the three orientations,
\* detect_faces returns the faces of the first orientation in the order
\* 0, +90, -90 whose count is the greatest (a tie keeps the earlier one), and
\* that orientation is the one it reports as best.
C1_FirstGreatestWins ==
    (dfOut.state = "returned" /\ image.status = "ok" /\ NoneRaises(image))
        => /\ dfOut.value = FaceDicts(image.det[FirstGreatest(image)].locations)
           /\ dfOut.best_orientation = FirstGreatest(image)

\* +90 and -90 both expose two faces, not the same ones, 0 exposes one:
\* the result is the one of +90
C1_Witness ==
    /\ dfOut.state = "returned" /\ image.status = "ok" /\ NoneRaises(image)
    /\ Len(image.det[0].locations) = 1
    /\ Len(image.det[90].locations) = 2
    /\ Len(image.det[-90].locations) = 2
    /\ image.det[90].locations # image.det[-90].locations
    /\ dfOut.best_orientation = 90
    /\ dfOut.value = FaceDicts(image.det[90].locations)

\* C2: an orientation on which the capability raises counts as no faces and
\* the others are still tried: detect_faces returns the best result among
\* the orientations that did not fail.
C2_FailedOrientationIsSkipped ==
    (dfOut.state = "returned" /\ image.status = "ok")
        => dfOut.value = FaceDicts(image.det[FirstGreatest(image)].locations)

\* C3: detect_faces and get_face_encodings never raise to the caller, and
\* return the empty list when the file is missing, cannot be opened, or no
\* orientation yields a face.
C3_NeverRaisesEmptyOnFailure ==
    LET nothing == \/ image.status \in {"missing", "corrupt"}
                   \/ \A r \in Rotations : CountOf(image, r) = 0
    IN  /\ dfOut.state # "raised"
        /\ encOut.state # "raised"
        /\ (dfOut.state = "returned" /\ nothing) => dfOut.value = << >>
        /\ (encOut.state = "returned" /\ nothing) => encOut.value = << >>

\* both were called on a file that is not an image
C3_Witness ==
    /\ image.status = "corrupt"
    /\ dfOut.state = "returned" /\ dfOut.value = << >>
    /\ encOut.state = "returned" /\ encOut.value = << >>

\* C4: on the same image detect_faces and get_face_encodings return lists of
\* the same length, and the i-th encoding is the descriptor, in the
\* orientation detect_faces chose, of the i-th face region returned.
C4_EncodingsPairWithFaces ==
    (dfOut.state = "returned" /\ encOut.state = "returned")
        => /\ Len(encOut.value) = Len(dfOut.value)
           /\ \A i \in 1..Len(dfOut.value) :
                 LET f == dfOut.value[i]
                 IN  encOut.value[i] = Descriptor(dfOut.best_orientation,
                                                  << f.top, f.right, f.bottom, f.left >>)

\* two faces found at +90 and two others at -90, one upright
C4_Witness ==
    /\ dfOut.state = "returned" /\ encOut.state = "returned"
    /\ image.status = "ok" /\ NoneRaises(image)
    /\ Len(image.det[0].locations) = 1
    /\ Len(image.det[90].locations) = 2
    /\ Len(image.det[-90].locations) = 2
    /\ image.det[90].locations # image.det[-90].locations
    /\ Len(encOut.value) = 2
    /\ encOut.value = face_encodings(90, image.det[90].locations)

----------------------------------------------------------------------------
(* The embedding store: C5 - C9 *)

FaceHashes(rows) == { r.face_hash : r \in rows }

OnePerHash(rows) == \A r, q \in rows : r.face_hash = q.face_hash => r = q

\* C5: the store holds at most one FaceRecord for a face_hash, a stored
\* record has the field values of the last store_face for its hash, and
\* storing a record that is stored as it is leaves the store contents as
\* they are.
C5_UpsertIsIdempotent ==
    /\ [](OnePerHash(faces))
    /\ [][\A fd \in FaceDataInputs :
             (StoreFace(fd) /\ fd.face_image_path # None)
                => /\ \E r \in faces' : RowData(r) = fd
                   /\ FaceHashes(faces') = FaceHashes(faces) \cup {fd.face_hash}
                   /\ { r \in faces' : r.face_hash # fd.face_hash }
                         = { r \in faces : r.face_hash # fd.face_hash }
                   /\ (\E r \in faces : RowData(r) = fd) => faces' = faces]_vars

\* C6: ids are unique, and a record keeps its id for as long as its
\* face_hash is stored, also when store_face is called again with that hash.
C6_IdIsStable ==
    /\ [](\A r, q \in faces : r.id = q.id => r = q)
    /\ [][\A r \in faces : \A q \in faces' :
             q.face_hash = r.face_hash => q.id = r.id]_vars

\* C7: process_image_file run again on the image it has just been run on
\* generates the same face hashes, leaves the same hashes in the store, adds
\* no record, and no two records share a hash.
C7_IngestionIsIdempotent ==
    [][\A image_urn \in ArchiveUrns :
          (lastCall.op = "process_image_file" /\ lastCall.urn = image_urn
             /\ ProcessImageFile(image_urn))
             => /\ lastCall'.hashes = lastCall.hashes
                /\ FaceHashes(faces') = FaceHashes(faces)
                /\ Cardinality(faces') = Cardinality(faces)
                /\ OnePerHash(faces')]_vars

\* the second run in a row on an image with two faces, both stored
C7_Witness ==
    /\ lastCall.op = "process_image_file" /\ lastCall.run = 2 /\ lastCall.ret = 1
    /\ Cardinality(lastCall.hashes) = 2
    /\ lastCall.hashes \subseteq FaceHashes(faces)

SameKey(r, image_urn, name_data) ==
    r.image_urn = image_urn /\ r.unified_name = name_data.unified_name

OnePerPair(rows) ==
    \A r, q \in rows : (r.image_urn = q.image_urn /\ r.unified_name = q.unified_name) => r = q

\* C8: image_names holds at most one row for an (image, unified name) pair,
\* as committed and as the open connection sees it; a row once committed
\* stays as it is; and inserting a pair that is there does not raise and
\* leaves the table as it was.
C8_InsertIfAbsent ==
    /\ [](OnePerPair(image_names) /\ (txn.open => OnePerPair(txn.rows)))
    /\ [][image_names \subseteq image_names']_vars
    /\ [][(StoreImageNamesExecute /\ txn.names[txn.i].complete
             /\ \E r \in txn.rows : SameKey(r, txn.urn, txn.names[txn.i]))
            => (txn'.open /\ txn'.rows = txn.rows /\ txn'.seq = txn.seq)]_vars

\* the call has just inserted a pair that is committed under another display
\* name: the row is as it was
C8_Witness ==
    /\ txn.open /\ txn.i > 1
    /\ txn.names[txn.i - 1].complete
    /\ \E r \in image_names :
          /\ SameKey(r, txn.urn, txn.names[txn.i - 1])
          /\ r.display_name # txn.names[txn.i - 1].display_name
          /\ r \in txn.rows
          /\ \A q \in txn.rows : SameKey(q, txn.urn, txn.names[txn.i - 1]) => q = r

AnyIncomplete(names) == \E i \in 1..Len(names) : ~names[i].complete

\* C9: what is committed changes only by a whole call: store_face commits
\* one complete record or nothing, and store_image_names commits a row for
\* every association of the call when it ends, or, when an association
\* fails, nothing; while the call runs the committed table does not change.
C9_AllOrNothing ==
    /\ [](\A r \in faces : r.face_image_path # None)
    /\ [][\A fd \in FaceDataInputs : StoreFace(fd) =>
             IF fd.face_image_path = None
             THEN faces' = faces /\ faceSeq' = faceSeq /\ lastCall'.ret = 0
             ELSE /\ \E r \in faces' : RowData(r) = fd /\ r.id = lastCall'.ret
                  /\ faces' \ { r \in faces' : r.face_hash = fd.face_hash }
                       = faces \ { r \in faces : r.face_hash = fd.face_hash }]_vars
    /\ [][IF txn.open /\ ~txn'.open
          THEN IF AnyIncomplete(txn.names)
               THEN image_names' = image_names /\ nameSeq' = nameSeq
               ELSE \A i \in 1..Len(txn.names) :
                       \E r \in image_names' : SameKey(r, txn.urn, txn.names[i])
          ELSE image_names' = image_names /\ nameSeq' = nameSeq]_vars

\* the call has inserted its first association, which is not committed, and
\* its second one is about to fail
C9_Witness ==
    /\ txn.open /\ txn.i = 2 /\ Len(txn.names) = 2
    /\ txn.rows # image_names
    /\ ~txn.names[2].complete

----------------------------------------------------------------------------
(* The similarity comparator: C10 *)

SquaredDistance(a, b) ==
    (a[1] - b[1]) * (a[1] - b[1]) + (a[2] - b[2]) * (a[2] - b[2])

\* C10: compare_faces does not raise and returns one match for every pair
\* (i, j) with 1 - distance(A[i], B[j]) >= threshold and none for any other
\* pair; a match carries i, j, the Euclidean distance, similarity =
\* 1 - distance, negative when the distance exceeds 1, and is_match true;
\* an empty A or B gives the empty list.
C10_ExactlyThePairsAboveThreshold ==
    cmpOut.state # "idle" =>
        LET A == cmpIn.archive_encodings
            B == cmpIn.wikidata_encodings
            M == cmpOut.value
        IN  /\ cmpOut.state = "returned"
            /\ \A k \in 1..Len(M) :
                  /\ M[k].archive_face_index \in 0..(Len(A) - 1)
                  /\ M[k].wikidata_face_index \in 0..(Len(B) - 1)
                  /\ M[k].distance >= 0
                  /\ M[k].distance * M[k].distance
                       = SquaredDistance(A[M[k].archive_face_index + 1],
                                         B[M[k].wikidata_face_index + 1])
                  /\ M[k].similarity = 10 - M[k].distance
                  /\ M[k].similarity >= cmpIn.threshold
                  /\ M[k].is_match = TRUE
            /\ \A i \in 0..(Len(A) - 1), j \in 0..(Len(B) - 1) :
                  LET hits == { k \in 1..Len(M) : M[k].archive_face_index = i
                                                  /\ M[k].wikidata_face_index = j }
                      sq   == SquaredDistance(A[i + 1], B[j + 1])
                  IN  IF \E d \in 0..sq : d * d = sq /\ 10 - d >= cmpIn.threshold
                      THEN Cardinality(hits) = 1
                      ELSE hits = {}
            /\ (A = << >> \/ B = << >>) => M = << >>

\* a match with a negative similarity, one exactly at the threshold's
\* similarity, and a pair that is no match
C10_Witness ==
    /\ cmpOut.state = "returned"
    /\ \E k \in 1..Len(cmpOut.value) : cmpOut.value[k].similarity < 0
    /\ \E k \in 1..Len(cmpOut.value) : cmpOut.value[k].similarity = cmpIn.threshold
    /\ Len(cmpOut.value) < Len(cmpIn.archive_encodings) * Len(cmpIn.wikidata_encodings)

\* the pair of face indices of a match: its place in the encounter order
Pair(m) == << m.archive_face_index, m.wikidata_face_index >>

Encountered(m, n) ==
    \/ m.archive_face_index < n.archive_face_index
    \/ /\ m.archive_face_index = n.archive_face_index
       /\ m.wikidata_face_index < n.wikidata_face_index

\* C11: the list compare_faces returns is in descending order of similarity,
\* and of two matches of equal similarity the one encountered first (smaller
\* archive face index, then smaller reference face index) comes first.
C11_SortedAndStable ==
    cmpOut.state = "returned" =>
        \A k \in 1..(Len(cmpOut.value) - 1) :
            \/ cmpOut.value[k].similarity > cmpOut.value[k + 1].similarity
            \/ /\ cmpOut.value[k].similarity = cmpOut.value[k + 1].similarity
               /\ Encountered(cmpOut.value[k], cmpOut.value[k + 1])

\* four matches, two ties, encountered in the order 0.5, 1.0, 1.0, 0.5
C11_Witness ==
    /\ cmpOut.state = "returned"
    /\ Len(cmpOut.value) = 4
    /\ cmpOut.value[1].similarity = cmpOut.value[2].similarity
    /\ Pair(cmpOut.value[1]) = << 0, 1 >> /\ Pair(cmpOut.value[2]) = << 1, 0 >>
    /\ cmpOut.value[3].similarity = cmpOut.value[4].similarity
    /\ Pair(cmpOut.value[3]) = << 0, 0 >> /\ Pair(cmpOut.value[4]) = << 1, 1 >>
    /\ cmpOut.value[2].similarity > cmpOut.value[3].similarity

\* C12: compare_faces on the same two lists with a threshold that is not
\* smaller returns no pair the first call did not return, so not more matches.
C12_ThresholdMonotone ==
    (cmpAgain.kind = "threshold" /\ cmpIn.threshold <= cmpAgain.threshold)
        => /\ { Pair(cmpAgain.value[k]) : k \in 1..Len(cmpAgain.value) }
                 \subseteq { Pair(cmpOut.value[k]) : k \in 1..Len(cmpOut.value) }
           /\ Len(cmpAgain.value) <= Len(cmpOut.value)

\* the threshold raised from 0.5 to 0.9 drops some matches and keeps others
C12_Witness ==
    /\ cmpAgain.kind = "threshold"
    /\ cmpIn.threshold = 5 /\ cmpAgain.threshold = 9
    /\ Len(cmpAgain.value) > 0
    /\ Len(cmpAgain.value) < Len(cmpOut.value)

\* C13: compare_faces with the two lists exchanged returns as many matches,
\* and the pair (i, j) with similarity s is in the first result exactly when
\* (j, i) with similarity s is in the second.
C13_Symmetric ==
    cmpAgain.kind = "swapped"
        => /\ Len(cmpAgain.value) = Len(cmpOut.value)
           /\ { << m.archive_face_index, m.wikidata_face_index, m.similarity >> :
                   m \in { cmpOut.value[k] : k \in 1..Len(cmpOut.value) } }
                = { << m.wikidata_face_index, m.archive_face_index, m.similarity >> :
                       m \in { cmpAgain.value[k] : k \in 1..Len(cmpAgain.value) } }

\* lists of different lengths, one face of the longer matching twice
C13_Witness ==
    /\ cmpAgain.kind = "swapped"
    /\ Len(cmpIn.archive_encodings) = 1 /\ Len(cmpIn.wikidata_encodings) = 2
    /\ Len(cmpOut.value) = 2
    /\ cmpOut.value[1].similarity # cmpOut.value[2].similarity
    /\ Pair(cmpAgain.value[2]) = << 0, 0 >>

----------------------------------------------------------------------------
(* The cross-collection matcher: C14 - C18 *)

\* the similarities of the first n matches, added up
RECURSIVE TotalSimilarity(_, _)
TotalSimilarity(S, n) == IF n = 0 THEN 0 ELSE S[n].similarity + TotalSimilarity(S, n - 1)

\* C14: in the summary of a report total_matches is the number of entries of
\* similarities, best_similarity is the greatest similarity among them,
\* average_similarity (a fraction) is their total divided by their number,
\* both are 0 when there is no match, and has_strong_match is true exactly when
\* best_similarity >= 0.8.
C14_SummaryIsTheStatistics ==
    report.state = "returned" =>
        LET S  == report.results.similarities
            sm == report.results.summary
        IN  /\ sm.total_matches = Len(S)
            /\ S # << >> => /\ \A k \in 1..Len(S) : S[k].similarity <= sm.best_similarity
                            /\ \E k \in 1..Len(S) : S[k].similarity = sm.best_similarity
            /\ S = << >> => sm.best_similarity = 0 /\ sm.average_similarity[1] = 0
            /\ sm.average_similarity[2] > 0
            /\ sm.average_similarity[1] * Len(S)
                  = TotalSimilarity(S, Len(S)) * sm.average_similarity[2]
            /\ sm.has_strong_match = (sm.best_similarity >= 8)

\* five matches of two archive images with two reference images, similarities
\* 0.6 and 1.0, the last of them not the best: mean 4.2 / 5
C14_Witness ==
    /\ report.state = "returned"
    /\ report.results.summary.total_matches = 5
    /\ report.results.summary.average_similarity = << 42, 5 >>
    /\ report.results.summary.best_similarity = 10
    /\ report.results.similarities[5].similarity = 6
    /\ report.results.summary.has_strong_match

\* the encodings the matcher got for archive image i and reference image j
\* (positions from 0) of the last report
ArchiveEncodings(i) == get_face_encodings(Archive(report.archive_image_paths[i + 1])).value

ReferenceEncodings(j) == from_cache(wikidata_face_cache[report.wikidata_image_urls[j + 1]])

\* C15: every match of a report carries the positions, in the two lists the
\* matcher was called with, of the archive image and the reference image whose
\* faces gave it, and the report has, once each, the matches of every pair of
\* images; an image without faces is in no match and shifts no index.
C15_MatchesCarryImagePositions ==
    report.state = "returned" =>
        LET S == report.results.similarities
            Matches(i, j) == compare_faces(ArchiveEncodings(i), ReferenceEncodings(j),
                                           DefaultThreshold).value
        IN  /\ \A k \in 1..Len(S) :
                  /\ S[k].archive_image_index \in 0..(Len(report.archive_image_paths) - 1)
                  /\ S[k].wikidata_image_index \in 0..(Len(report.wikidata_image_urls) - 1)
                  /\ LET M == Matches(S[k].archive_image_index, S[k].wikidata_image_index)
                     IN  \E n \in 1..Len(M) : /\ Pair(M[n]) = Pair(S[k])
                                              /\ M[n].similarity = S[k].similarity
            /\ \A i \in 0..(Len(report.archive_image_paths) - 1),
                  j \in 0..(Len(report.wikidata_image_urls) - 1) :
                  \A n \in 1..Len(Matches(i, j)) :
                      Cardinality({ k \in 1..Len(S) :
                                       /\ S[k].archive_image_index = i
                                       /\ S[k].wikidata_image_index = j
                                       /\ Pair(S[k]) = Pair(Matches(i, j)[n]) }) = 1

\* three archive images, the first without faces; matches of the second with
\* the second reference image and of the third with the first
C15_Witness ==
    /\ report.state = "returned"
    /\ Len(report.archive_image_paths) = 3
    /\ 0 \notin DOMAIN report.results.archive_faces
    /\ Len(report.results.similarities) = 2
    /\ report.results.similarities[1].archive_image_index = 1
    /\ report.results.similarities[1].wikidata_image_index = 1
    /\ report.results.similarities[2].archive_image_index = 2
    /\ report.results.similarities[2].wikidata_image_index = 0

\* C16: the matcher called without reference images returns a report with no
\* similarities whose summary has total_matches 0 and best_similarity 0.
C16_NoReferenceImages ==
    (report.state = "returned" /\ report.wikidata_image_urls = << >>)
        => /\ report.results.similarities = << >>
           /\ { "total_matches", "best_similarity" } \subseteq DOMAIN report.results.summary
           /\ report.results.summary.total_matches = 0
           /\ report.results.summary.best_similarity = 0

\* no reference image, two archive images with faces
C16_Witness ==
    /\ report.state = "returned"
    /\ report.wikidata_image_urls = << >>
    /\ DOMAIN report.results.archive_faces = { 0, 1 }

\* C17: no URL is downloaded more than once, and every call for a URL, direct
\* or by the matcher, gets the encodings the call that downloaded it returned.
C17_ReferenceProcessedOnce ==
    /\ \A u \in ReferenceUrls : Len(fetched[u]) <= 1
    /\ urlOut.state = "returned"
          => /\ fetched[urlOut.url] # << >>
             /\ urlOut.value = fetched[urlOut.url][1]
    /\ report.state = "returned"
          => \A j \in 1..Len(report.wikidata_image_urls) :
                LET u == report.wikidata_image_urls[j]
                IN  /\ fetched[u] # << >>
                    /\ (j - 1) \in DOMAIN report.results.wikidata_faces
                          <=> fetched[u][1] # << >>
                    /\ (j - 1) \in DOMAIN report.results.wikidata_faces
                          => report.results.wikidata_faces[j - 1].face_count
                                = Len(fetched[u][1])

\* a call answered from the cache with the two encodings a matcher call had
\* downloaded
C17_Witness ==
    /\ urlOut.state = "returned" /\ ~urlOut.fetch
    /\ Len(urlOut.value) = 2
    /\ report.state = "returned"
    /\ \E j \in 1..Len(report.wikidata_image_urls) : report.wikidata_image_urls[j] = urlOut.url

\* C18: the matcher does not call the detector on an archive image the store
\* holds faces of.
C18_IngestedImagesNotDetectedAgain ==
    [][report' # report
          => \A k \in 1..Len(report'.detector_calls) :
                ~ \E r \in faces : r.image_urn = report'.detector_calls[k]]_vars

----------------------------------------------------------------------------
(* The ingestion pipeline: C19 - C20 *)

\* the image file cannot be processed: it is gone, is no image, or the
\* detection raises on it
Unprocessable(urn) ==
    \/ Archive(urn).status # "ok"
    \/ Archive(urn).det[0].raises

\* C19: in a batch run every image found is taken once, in turn, and counted
\* as failed when it cannot be processed and as processed otherwise, whatever
\* happened to the images before it; the two counts add up to the number of
\* images taken, and the run goes on to its report, where they add up to the
\* number of images found and faces_found is the number of faces in the store.
C19_FailuresAreIsolatedAndCounted ==
    /\ [](batch.state \in { "running", "reported" }
             => batch.processed_count + batch.failed_count = batch.i)
    /\ [](batch.state = "reported"
             => /\ batch.processed_count + batch.failed_count = Len(batch.image_files)
                /\ batch.failed_count
                      = Cardinality({ k \in 1..Len(batch.image_files) :
                                         Unprocessable(batch.image_files[k]) })
                /\ batch.faces_found = Cardinality(faces))
    /\ [][batch.state = "running" /\ batch'.state = "running" /\ batch' # batch
             => /\ batch'.i = batch.i + 1
                /\ batch'.image_files = batch.image_files
                /\ batch'.failed_count - batch.failed_count
                      = IF Unprocessable(batch.image_files[batch.i + 1]) THEN 1 ELSE 0]_vars
    /\ (batch.state = "running") ~> (batch.state = "reported")

\* a run of three images that has reported: the first is no image, the second
\* is gone, the third has two faces
C19_Witness ==
    /\ batch.state = "reported"
    /\ batch.image_files = << "urn:3", "urn:5", "urn:1" >>
    /\ batch.failed_count = 2 /\ batch.processed_count = 1
    /\ batch.faces_found = 2

\* C20: after process_image_file has processed an image whose crops can be
\* saved, the store holds, for that image, one record for every face
\* detect_faces returns for it, with that face's index and region, and the
\* associations of the image's names.
C20_IngestionStoresDetectorFaces ==
    [][\A image_urn \in ArchiveUrns :
          (ProcessImageFile(image_urn) /\ lastCall'.ret = 1 /\ Archive(image_urn).crop_ok)
             => LET found == detect_faces(Archive(image_urn)).value
                    names == get_names_for_image(image_urn)
                IN  /\ { << r.face_index, r.face_top, r.face_right, r.face_bottom, r.face_left >> :
                            r \in { q \in faces' : q.image_urn = image_urn } }
                          = { << found[k].id, found[k].top, found[k].right,
                                 found[k].bottom, found[k].left >> : k \in 1..Len(found) }
                    /\ found # << >>
                          => \A n \in 1..Len(names) :
                                \E a \in get_image_names(image_names', image_urn) :
                                    a.unified_name = names[n].unified_name]_vars

----------------------------------------------------------------------------
(* The queries on the store: C21, C26 *)

\* the BLOB is an encoding: whole float64 words, EncodingLength of them
WellFormed(blob) ==
    /\ blob = << >> \/ blob[Len(blob)] # TrailingBytes
    /\ Len(blob) = EncodingLength

GoodRows(rows) == { r \in rows : WellFormed(r.face_encoding) }

Smaller(a, b) == IF a < b THEN a ELSE b

\* C21: a stored embedding that is no vector of the expected length is left
\* out and nothing else: get_all_faces returns the other stored faces, and
\* find_similar_faces returns, ranked, the other stored faces up to its limit.
C21_BadEmbeddingIsSkipped ==
    /\ query.op = "get_all_faces"
          => { query.value[k].id : k \in 1..Len(query.value) }
                = { r.id : r \in GoodRows(query.faces) }
    /\ query.op = "find_similar_faces"
          => /\ query.state = "returned"
             /\ { query.value[k].face.id : k \in 1..Len(query.value) }
                   \subseteq { r.id : r \in GoodRows(query.faces) }
             /\ Len(query.value) = Smaller(query.limit, Cardinality(GoodRows(query.faces)))

\* the similarity of a stored face to the target, from the squared distance
SimilarityIs(target, row, similarity) ==
    /\ similarity <= 10
    /\ (10 - similarity) * (10 - similarity) = SquaredDistance(target, row.face_encoding)

\* C26: find_similar_faces returns at most limit entries, each a stored face
\* with its similarity 1 - distance to the target, no face twice, in
\* descending order of similarity, and no stored face left out is more
\* similar than one returned; the endpoint, for a stored face and a limit,
\* answers with min(limit, N - 1) faces of the N stored, the target not
\* among them.
C26_RankedMatches ==
    /\ query.op = "find_similar_faces"
          => LET V == query.value
                 returned == { V[k].face.id : k \in 1..Len(V) }
             IN  /\ query.state = "returned"
                 /\ Len(V) <= query.limit
                 /\ Cardinality(returned) = Len(V)
                 /\ \A k \in 1..Len(V) :
                       \E r \in query.faces :
                          /\ r.id = V[k].face.id /\ r.face_hash = V[k].face.face_hash
                          /\ SimilarityIs(query.target, r, V[k].similarity)
                 /\ \A k \in 1..(Len(V) - 1) : V[k].similarity >= V[k + 1].similarity
                 /\ \A r \in query.faces :
                       r.id \notin returned
                          => \A k \in 1..Len(V) :
                                \E sim \in -20..V[k].similarity :
                                    SimilarityIs(query.target, r, sim)
                 /\ Len(V) = Smaller(query.limit, Cardinality(query.faces))
    /\ (query.op = "get_similar_faces" /\ \E r \in query.faces : r.id = query.face_id)
          => /\ query.status = 200
             /\ \A k \in 1..Len(query.value) : query.value[k].face.id # query.face_id
             /\ \A k \in 1..Len(query.value) :
                   \E r \in query.faces : r.id = query.value[k].face.id
             /\ \A k \in 1..(Len(query.value) - 1) :
                   query.value[k].similarity >= query.value[k + 1].similarity
             /\ Len(query.value) = Smaller(query.limit, Cardinality(query.faces) - 1)

\* the endpoint asked for one face similar to a face of three stored: the
\* answer is the face with the same encoding, the third face is left out
C26_Witness ==
    /\ query.op = "get_similar_faces" /\ query.status = 200
    /\ query.limit = 1
    /\ Cardinality(query.faces) = 3
    /\ Len(query.value) = 1
    /\ query.value[1].similarity = 10
    /\ query.value[1].face.id # query.face_id

----------------------------------------------------------------------------
(* The order of the batch run: C22 *)

\* the loop of main from position i on, on the committed tables
RECURSIVE main_loop(_, _, _, _)
main_loop(ft, nt, image_files, i) ==
    IF i > Len(image_files) THEN [ft |-> ft, nt |-> nt]
    ELSE LET r == process_image_file(ft, nt, Archive(image_files[i]), image_files[i])
         IN  main_loop(r.ft, r.nt, image_files, i + 1)

\* the tables a run over the image files leaves, from the empty database
RunOf(image_files) ==
    main_loop([rows |-> {}, seq |-> 0], [rows |-> {}, seq |-> 0], image_files, 1)

\* a table without the ids
FaceRecords(rows) == { RowData(r) : r \in rows }

Associations(rows) ==
    { [image_urn |-> r.image_urn, unified_name |-> r.unified_name,
       display_name |-> r.display_name] : r \in rows }

\* C22: when a batch run has ended, a run over the same images in any other
\* order would have left the same face records (hash, image, index, region,
\* embedding, crop path) and the same associations of names, ids apart.
C22_OrderDoesNotMatter ==
    batch.state = "reported" =>
        \A p \in Permutations(1..Len(batch.image_files)) :
            LET other == RunOf([k \in 1..Len(batch.image_files) |-> batch.image_files[p[k]]])
            IN  /\ FaceRecords(other.ft.rows) = FaceRecords(faces)
                /\ Associations(other.nt.rows) = Associations(image_names)

\* a run over three images, two of which gave faces: the image with one face
\* came first and has the first id
C22_Witness ==
    /\ batch.state = "reported"
    /\ Len(batch.image_files) = 3
    /\ Cardinality(faces) = 3
    /\ \E r \in faces : r.id = 1 /\ r.image_urn = "urn:2"
    /\ \E r \in image_names : r.image_urn = "urn:1"
    /\ \E r \in image_names : r.image_urn = "urn:2"

----------------------------------------------------------------------------
(* The cache of reference images: C23, C24, C27, C29 *)

\* the record of the image of the entity of a link, once a call that
\* downloaded it has returned: a set, empty before
CachedOnce(wikidata_url) ==
    IF get_entity_id(wikidata_url) = "" THEN {}
    ELSE wikidata_log[get_entity_id(wikidata_url)].cached

\* C23: once a call of fetch_wikidata_image has downloaded and cached the
\* image of an entity, every later call for it returns that record at once,
\* without a request, and get_cached_image_path returns its path, and never
\* makes a request.
C23_FetchedOnceAndReused ==
    [][/\ \A c \in Callers, u \in WikidataLinks :
             (FwiCall(c, u) /\ CachedOnce(u) # {})
                => /\ caller'[c].pc = "returned"
                   /\ caller'[c].result = CachedOnce(u)
       /\ \A u \in WikidataLinks :
             GetCachedImagePath(u)
                => /\ wikidata_log' = wikidata_log
                   /\ CachedOnce(u) # {}
                         => pathOut'.value = { r.image_path : r \in CachedOnce(u) }]_vars

\* the two callers have fetched the same entity at once and both calls are over
RaceOver(entity_id) ==
    \A c \in Callers : /\ caller[c].pc \in { "returned", "raised" }
                       /\ caller[c].raced
                       /\ caller[c].entity_id = entity_id

\* the cache holds the image of the entity: the entry in memory and in
\* metadata.json, and the complete file it names
HoldsImage(entity_id) ==
    /\ entity_id \in DOMAIN metadata
    /\ metadata[entity_id] = FoundEntry(entity_id, bindings(entity_id)[1])
    /\ metadata_file.status = "written"
    /\ entity_id \in DOMAIN metadata_file.data
    /\ metadata_file.data[entity_id] = metadata[entity_id]
    /\ metadata[entity_id].image_path \in DOMAIN cache_files
    /\ cache_files[metadata[entity_id].image_path] = "complete"

\* the call of the caller has downloaded the image and stored it
Stored(c) == caller[c].wrote /\ ~caller[c].in_except

\* the requests made for the entity so far are those of two calls that both
\* queried and downloaded
TwoFetches(entity_id) ==
    wikidata_log[entity_id].sparql = 2 /\ wikidata_log[entity_id].image = 2

\* C24: when the two callers have fetched at once an entity that was not
\* cached, and both have downloaded its image and stored it, no other request
\* for the entity having been made, then neither call has raised, both return
\* the entry of the image, and the cache holds the image: the entry in memory
\* and in metadata.json, and the complete file.
C24_RaceIsTolerated ==
    (RaceOver("Q1") /\ TwoFetches("Q1") /\ \A c \in Callers : Stored(c)) =>
        /\ \A c \in Callers :
              /\ caller[c].pc = "returned"
              /\ caller[c].result = { FoundEntry("Q1", bindings("Q1")[1]) }
        /\ HoldsImage("Q1")

\* both callers missed the cache, queried, downloaded and stored the image
C24_Witness ==
    /\ RaceOver("Q1")
    /\ \A c \in Callers : Stored(c)
    /\ TwoFetches("Q1")
    /\ HoldsImage("Q1")

\* C27: a call for an entity whose entry records that it has no image, or an
\* error, returns that entry at once, without a query.
C27_NegativeResultIsReused ==
    [][\A c \in Callers, u \in WikidataLinks :
          (FwiCall(c, u) /\ get_entity_id(u) \in DOMAIN metadata
             /\ metadata[get_entity_id(u)].error # NoError)
             => /\ caller'[c].pc = "returned"
                /\ caller'[c].result = { metadata[get_entity_id(u)] }]_vars

\* C29: no call of fetch_wikidata_image raises, and when a call returns an
\* entry without error that names a file, the file exists.
C29_NoRaiseAndFileExists ==
    /\ [](\A c \in Callers : caller[c].pc # "raised")
    /\ [][\A c \in Callers :
             (caller'[c] # caller[c] /\ caller'[c].pc = "returned")
                => \A r \in caller'[c].result :
                      (r.error = NoError /\ r.image_path # NoPath)
                         => exists(cache_dir', cache_files', r.image_path)]_vars

\* the last call of get_faces_with_boxes found its path in the cache
BoxHit == boxOut.value # {} /\ boxOut.invocations = 0
            /\ gfwb_invocations(disk[boxOut.image_path]) > 0

\* C25: a call of get_faces_with_boxes for a path that is not in the cache runs
\* the detection on the image and caches the result under the path; a call for
\* a path in the cache returns the cached result and makes no call of the capability; and no operation removes or changes an entry of the cache.
C25_DetectionCachedPerImage ==
    [][/\ \A p \in BoxPaths :
             GetFacesWithBoxes(p)
                => IF p \in DOMAIN face_cache
                   THEN /\ boxOut'.value = { face_cache[p] }
                        /\ boxOut'.invocations = 0
                   ELSE /\ boxOut'.value = { gfwb_result(disk[p]) }
                        /\ boxOut'.invocations = gfwb_invocations(disk[p])
                        /\ p \in DOMAIN face_cache'
                        /\ face_cache'[p] = gfwb_result(disk[p])
       /\ \A p \in DOMAIN face_cache :
             p \in DOMAIN face_cache' /\ face_cache'[p] = face_cache[p]]_vars

\* a call returned the cached result of an image that was replaced since: the
\* detection on the file now at the path would call the capability and give
\* another result
C25_Witness ==
    /\ BoxHit
    /\ boxOut.image_path \in DOMAIN face_cache
    /\ boxOut.value = { face_cache[boxOut.image_path] }
    /\ boxOut.value # { gfwb_result(disk[boxOut.image_path]) }
    /\ boxOut.value = { gfwb_result(Archive(boxOut.image_path)) }

\* the failure of the URL is recorded in the cache
FailureCached(cache, image_url) ==
    image_url \in DOMAIN cache /\ cache[image_url] = << >>

\* C28: a call of get_face_encodings_from_url whose download fails records
\* the empty list for the URL, in memory and in the cache file; a call for a
\* URL whose failure is recorded returns the empty list without a download,
\* whether or not the image can now be downloaded; and the record is lost
\* only by a restart after the clear script has removed it from the file.
C28_FailureIsCached ==
    [][\A image_url \in ReferenceUrls :
          /\ (GetFaceEncodingsFromUrl(image_url, FALSE)
                 /\ image_url \notin DOMAIN wikidata_face_cache)
                => /\ urlOut'.value = << >>
                   /\ FailureCached(wikidata_face_cache', image_url)
                   /\ FailureCached(wikidata_cache_file', image_url)
          /\ \A response_ok \in BOOLEAN :
                (GetFaceEncodingsFromUrl(image_url, response_ok)
                    /\ FailureCached(wikidata_face_cache, image_url))
                   => /\ urlOut'.value = << >>
                      /\ ~urlOut'.fetch
                      /\ fetched' = fetched
                      /\ wikidata_face_cache' = wikidata_face_cache
          /\ FailureCached(wikidata_face_cache, image_url)
                => \/ FailureCached(wikidata_face_cache', image_url)
                   \/ /\ LoadWikidataCache
                      /\ image_url \notin DOMAIN wikidata_cache_file
          /\ FailureCached(wikidata_cache_file, image_url)
                => \/ FailureCached(wikidata_cache_file', image_url)
                   \/ ClearWikidataFaceCache]_vars

\* a call returned the empty list from the cache, without a download, for a
\* URL whose one download has failed and whose image has faces
C28_Witness ==
    /\ urlOut.state = "returned"
    /\ ~urlOut.fetch
    /\ urlOut.value = << >>
    /\ fetched[urlOut.url] = << << >> >>
    /\ FailureCached(wikidata_face_cache, urlOut.url)
    /\ FailureCached(wikidata_cache_file, urlOut.url)
    /\ get_face_encodings(WebImage(urlOut.url)).value # << >>

SummaryFields ==
    { "total_matches", "best_similarity", "average_similarity", "has_strong_match" }

\* C30: the match report of every answer of get_person_face_data has a
\* summary with the four fields total_matches, best_similarity,
\* average_similarity and has_strong_match, every match of it has a similarity
\* of at least 0.6, and so best_similarity is 0 or at least 0.6.
C30_ReportHasFullSummary ==
    personOut.state = "returned" =>
        /\ DOMAIN personOut.face_similarity.summary = SummaryFields
        /\ \A k \in 1..Len(personOut.face_similarity.similarities) :
              personOut.face_similarity.similarities[k].similarity >= DefaultThreshold
        /\ \/ personOut.face_similarity.summary.best_similarity = 0
           \/ personOut.face_similarity.summary.best_similarity >= DefaultThreshold

============================================================================
